---- MODULE Spec2Model ----
(***************************************************************************)
(* A state-machine model of the layered temperature/humidity driver stack: *)
(*   - the bit-banged two-wire bus engine  (BSP/driver/src/iic_abstract.c)  *)
(*   - the AHT21 protocol driver           (BSP/driver/src/aht21.c)         *)
(*   - the backend adapter                 (BSP/adapter/src/temp_humi_adapter.c) *)
(*   - the sensor abstraction + scheduler  (APP/src/sensor.c)               *)
(*                                                                         *)
(* The bus is modelled at byte level: one wire event per start condition,  *)
(* stop condition, transmitted byte (with the SDA level sampled in the 9th *)
(* clock) and received byte (with the SDA level the controller drives in   *)
(* the 9th clock).  The slave (ACK levels, reply bytes) is the environment.*)
(* Enumeration values are the integers the C enums give them.              *)
(***************************************************************************)
EXTENDS Integers, Sequences, FiniteSets, TLC

(* ------------------------------ bounds -------------------------------- *)
\* number of generic sensor instances (each bound to its own AHT21 device)
NumSensors == 3
\* longest payload of a stand-alone bus transfer
MaxLen == 3
\* cap on the elapsed-tick counter while a device waits for a measurement
MaxTicks == 17

(* ------------------------ program constants --------------------------- *)
NULL == 0

IIC_OK == 0
IIC_ERR_NACK == 1
IIC_ERR_TIMEOUT == 2
IIC_ERR_BUS_BUSY == 3
IIC_ERR_INVALID_PARAM == 4

AHT21_ADDR == 56
AHT21_CMD_INIT == 190
AHT21_CMD_TRIGGER == 172
AHT21_CMD_SOFT_RESET == 186
AHT21_STATUS_BUSY == 128
AHT21_STATUS_CALIBRATED == 8

AHT21_STATE_IDLE == 0
AHT21_STATE_INIT == 1
AHT21_STATE_WAIT_MEASURE == 2
AHT21_STATE_READY == 3
AHT21_STATE_ERROR == 4

AHT21_OK == 0
AHT21_ERR_NOT_INIT == 1
AHT21_ERR_BUSY == 2
AHT21_ERR_TIMEOUT == 3
AHT21_ERR_IIC == 4
AHT21_ERR_INVALID_PARAM == 5
AHT21_ERR_CRC == 6

SENSOR_STATE_IDLE == 0
SENSOR_STATE_MEASURING == 1
SENSOR_STATE_READY == 2
SENSOR_STATE_ERROR == 3

SENSOR_OK == 0
SENSOR_ERR_INIT == 1
SENSOR_ERR_BUSY == 2
SENSOR_ERR_TIMEOUT == 3
SENSOR_ERR_COMM == 4
SENSOR_ERR_INVALID_PARAM == 5
SENSOR_ERR_NOT_READY == 6

\* return codes of sensor_start
START_INSERTED == 0
START_DUPLICATE == -1
START_NULL == -2

\* uint16_t timeout = 1000 of sensor_read_blocking
POLL_TIMEOUT == 1000

\* 80 / 5 of aht21_ticks: the measurement latency in ticks
MEASURE_LATENCY_TICKS == 16

\* default re-measurement interval in ms set by aht21_init
DEFAULT_MEASURE_INTERVAL == 100

VARIABLES
    bus_busy,     \* IIC_Handle.bus_busy of the one bus
    wire,         \* byte-level bus activity of the API call in progress / last made
    dev,          \* dev[d]: the AHT21_Handle of device d
    sen,          \* sen[s]: the TempHumiSensor s (driver_handle = device s, ops = aht21_ops)
    head_sensor,  \* head of the intrusive registry list
    ticking,      \* TRUE while a sensor_ticks pass is inside its for loop
    target,       \* the loop variable of sensor_ticks
    invoked,      \* instances whose sensor_handler ran in the sensor_ticks pass in progress or just made, in order
    regOrder,     \* instances whose sensor_start returned 0 and that were not stopped since, newest first
    cycle_open,   \* cycle_open[d]: a trigger_measure succeeded on d; no read_data or soft_reset succeeded and no init ran on d since
    unread,       \* unread[d]: a trigger_measure returned OK on d; no read_data returned OK and no init ran on d since
    ready_ticks,  \* ready_ticks[d]: aht21_ticks calls made on d since it entered READY, 0 when it is not READY
    blk_pc,       \* where a sensor_read_blocking call stands: "idle" (none running), "poll" (in its while loop), "read" (past it)
    blk_timeout,  \* the local variable timeout of sensor_read_blocking
    polls,        \* sensor_get_state calls made by the sensor_read_blocking call running or made last
    out_temp,     \* the caller's float the getters may write
    out_humi,     \* the caller's float the getters may write
    call          \* the API call made last: operation, arguments, result

vars == <<bus_busy, wire, dev, sen, head_sensor, ticking, target, invoked,
          regOrder, cycle_open, unread, ready_ticks, blk_pc, blk_timeout, polls, out_temp, out_humi, call>>

Sensors == 1..NumSensors
Devices == 1..NumSensors

(* ============================ Bus Engine ============================== *)

\* a null data pointer (a real buffer always holds at least one byte)
NULL_BUF == <<>>

\* one byte-level event on the wire; busy is IIC_Handle.bus_busy when the primitive returns
Event(ev, data, sda, busy) == [ev |-> ev, data |-> data, sda |-> sda, busy |-> busy]

\* the bus as the primitives see it: the handle's flag and the activity so far
Line(busy, w) == [bus_busy |-> busy, wire |-> w]

iic_start(b) ==
    Line(1, Append(b.wire, Event("start", 0, 0, 1)))

iic_stop(b) ==
    Line(0, Append(b.wire, Event("stop", 0, 0, 0)))

\* data is a uint8_t parameter; sda is the level read_sda() returns in the ACK clock
iic_write_byte(b, data, sda) ==
    [res |-> IF sda = 0 THEN IIC_OK ELSE IIC_ERR_NACK,
     b   |-> Line(b.bus_busy, Append(b.wire, Event("wbyte", data % 256, sda, b.bus_busy)))]

\* rx is the byte sampled from the slave; ack # 0 makes the controller drive SDA low (ACK)
iic_read_byte(b, rx, ack) ==
    [res  |-> IIC_OK,
     data |-> rx,
     b    |-> Line(b.bus_busy,
                   Append(b.wire, Event("rbyte", rx, IF ack # 0 THEN 0 ELSE 1, b.bus_busy)))]

\* mutation: a NACKed payload byte returns without the stop condition
RECURSIVE iic_write_loop_nostop(_, _, _, _, _)
iic_write_loop_nostop(b, data, len, i, acks) ==
    IF i < len
    THEN LET w == iic_write_byte(b, data[i + 1], acks[i + 2])
         IN  IF w.res # IIC_OK
             THEN [res |-> w.res, b |-> w.b]
             ELSE iic_write_loop_nostop(w.b, data, len, i + 1, acks)
    ELSE [res |-> IIC_OK, b |-> iic_stop(b)]

\* the payload loop of iic_write and the stop that follows it
RECURSIVE iic_write_loop(_, _, _, _, _)
iic_write_loop(b, data, len, i, acks) ==
    IF i < len
    THEN LET w == iic_write_byte(b, data[i + 1], acks[i + 2])
         IN  IF w.res # IIC_OK
             THEN [res |-> w.res, b |-> iic_stop(w.b)]
             ELSE iic_write_loop(w.b, data, len, i + 1, acks)
    ELSE [res |-> IIC_OK, b |-> iic_stop(b)]

\* mutation: the result of the address byte is not checked
iic_write_ignore_addr_nack(b, addr, data, len, acks) ==
    IF data = NULL_BUF \/ len = 0
    THEN [res |-> IIC_ERR_INVALID_PARAM, b |-> b]
    ELSE LET s == iic_start(b)
             a == iic_write_byte(s, addr * 2, acks[1])
         IN  iic_write_loop(a.b, data, len, 0, acks)

\* acks[k] is the SDA level the slave answers the k-th transmitted byte with
iic_write(b, addr, data, len, acks) ==
    IF data = NULL_BUF \/ len = 0
    THEN [res |-> IIC_ERR_INVALID_PARAM, b |-> b]
    ELSE LET s == iic_start(b)
             a == iic_write_byte(s, addr * 2, acks[1])
         IN  IF a.res # IIC_OK
             THEN [res |-> a.res, b |-> iic_stop(a.b)]
             ELSE iic_write_loop(a.b, data, len, 0, acks)

\* mutation: the controller acknowledges every byte, the last one too
RECURSIVE iic_read_loop_ack_all(_, _, _, _, _)
iic_read_loop_ack_all(b, buf, len, i, rx) ==
    IF i < len
    THEN LET r == iic_read_byte(b, rx[i + 1], 1)
         IN  IF r.res # IIC_OK
             THEN [res |-> r.res, b |-> iic_stop(r.b), data |-> buf]
             ELSE iic_read_loop_ack_all(r.b, [buf EXCEPT ![i + 1] = r.data], len, i + 1, rx)
    ELSE [res |-> IIC_OK, b |-> iic_stop(b), data |-> buf]

\* the byte loop of iic_read and the stop that follows it; buf is the caller's buffer
RECURSIVE iic_read_loop(_, _, _, _, _)
iic_read_loop(b, buf, len, i, rx) ==
    IF i < len
    THEN LET r == iic_read_byte(b, rx[i + 1], IF i < len - 1 THEN 1 ELSE 0)
         IN  IF r.res # IIC_OK
             THEN [res |-> r.res, b |-> iic_stop(r.b), data |-> buf]
             ELSE iic_read_loop(r.b, [buf EXCEPT ![i + 1] = r.data], len, i + 1, rx)
    ELSE [res |-> IIC_OK, b |-> iic_stop(b), data |-> buf]

\* sda is the slave's answer to the address byte, rx the bytes it would send
iic_read(b, addr, buf, len, sda, rx) ==
    IF buf = NULL_BUF \/ len = 0
    THEN [res |-> IIC_ERR_INVALID_PARAM, b |-> b, data |-> buf]
    ELSE LET s == iic_start(b)
             a == iic_write_byte(s, addr * 2 + 1, sda)
         IN  IF a.res # IIC_OK
             THEN [res |-> a.res, b |-> iic_stop(a.b), data |-> buf]
             ELSE iic_read_loop(a.b, buf, len, 0, rx)

(* ========================== Protocol Driver =========================== *)

\* x & mask for a mask with a single bit set
BitAnd(x, mask) == ((x \div mask) % 2) * mask

\* what the slave does during one driver operation:
\*   wacks  SDA levels answering the bytes of a write transfer
\*   sack   SDA level answering the address byte of the status read
\*   status the status byte it returns
\*   rack   SDA level answering the address byte of the 7-byte read
\*   frame  the 7 reply bytes it returns
SlaveEnv(wacks, sack, status, rack, frame) ==
    [wacks |-> wacks, sack |-> sack, status |-> status, rack |-> rack, frame |-> frame]

\* the AHT21_Handle right after memset and the three assignments of aht21_init.
\* temperature and humidity are exact, in units of 2^-20 (degree C, percent).
AHT21_Zeroed ==
    [state |-> AHT21_STATE_INIT, measure_ticks |-> 0,
     raw_data |-> <<0, 0, 0, 0, 0, 0, 0>>,
     temperature |-> 0, humidity |-> 0,
     measure_interval |-> DEFAULT_MEASURE_INTERVAL]

\* reads one status byte; status is meaningful only when res = AHT21_OK
aht21_check_status(h, b, e) ==
    LET r == iic_read(b, AHT21_ADDR, <<0>>, 1, e.sack, <<e.status>>)
    IN  IF r.res # IIC_OK
        THEN [res |-> AHT21_ERR_IIC, b |-> r.b, status |-> 0]
        ELSE [res |-> AHT21_OK, b |-> r.b, status |-> r.data[1]]

\* raw_data[k] of the C code is raw_data[k + 1] here
aht21_parse_data(h) ==
    LET humidity_raw    == h.raw_data[2] * 4096 + h.raw_data[3] * 16 + (h.raw_data[4] \div 16)
        temperature_raw == (h.raw_data[4] % 16) * 65536 + h.raw_data[5] * 256 + h.raw_data[6]
    IN  [h EXCEPT !.humidity = humidity_raw * 100,
                  !.temperature = temperature_raw * 200 - 50 * 1048576]

\* mutation: a clear calibration bit is accepted
aht21_init_skip_calibration(h, b, iic_ok, e) ==
    IF ~iic_ok
    THEN [res |-> AHT21_ERR_INVALID_PARAM, h |-> h, b |-> b]
    ELSE LET w == iic_write(b, AHT21_ADDR, <<AHT21_CMD_INIT, 8, 0>>, 3, e.wacks)
         IN  IF w.res # IIC_OK
             THEN [res |-> AHT21_ERR_IIC,
                   h |-> [AHT21_Zeroed EXCEPT !.state = AHT21_STATE_ERROR], b |-> w.b]
             ELSE LET c == aht21_check_status(AHT21_Zeroed, w.b, e)
                  IN  IF c.res # AHT21_OK
                      THEN [res |-> AHT21_ERR_IIC,
                            h |-> [AHT21_Zeroed EXCEPT !.state = AHT21_STATE_ERROR], b |-> c.b]
                      ELSE [res |-> AHT21_OK,
                            h |-> [AHT21_Zeroed EXCEPT !.state = AHT21_STATE_IDLE], b |-> c.b]

\* iic_ok: the iic argument is not null (the handle is not null: h is its contents)
aht21_init(h, b, iic_ok, e) ==
    IF ~iic_ok
    THEN [res |-> AHT21_ERR_INVALID_PARAM, h |-> h, b |-> b]
    ELSE LET w == iic_write(b, AHT21_ADDR, <<AHT21_CMD_INIT, 8, 0>>, 3, e.wacks)
         IN  IF w.res # IIC_OK
             THEN [res |-> AHT21_ERR_IIC,
                   h |-> [AHT21_Zeroed EXCEPT !.state = AHT21_STATE_ERROR], b |-> w.b]
             ELSE LET c == aht21_check_status(AHT21_Zeroed, w.b, e)
                  IN  IF c.res # AHT21_OK
                      THEN [res |-> AHT21_ERR_IIC,
                            h |-> [AHT21_Zeroed EXCEPT !.state = AHT21_STATE_ERROR], b |-> c.b]
                      ELSE IF BitAnd(c.status, AHT21_STATUS_CALIBRATED) = 0
                      THEN [res |-> AHT21_ERR_NOT_INIT,
                            h |-> [AHT21_Zeroed EXCEPT !.state = AHT21_STATE_ERROR], b |-> c.b]
                      ELSE [res |-> AHT21_OK,
                            h |-> [AHT21_Zeroed EXCEPT !.state = AHT21_STATE_IDLE], b |-> c.b]

\* mutation: the result of the write is not looked at
aht21_soft_reset_unchecked(h, b, e) ==
    LET w == iic_write(b, AHT21_ADDR, <<AHT21_CMD_SOFT_RESET>>, 1, e.wacks)
    IN  [res |-> AHT21_OK, h |-> [h EXCEPT !.state = AHT21_STATE_IDLE], b |-> w.b]

aht21_soft_reset(h, b, e) ==
    LET w == iic_write(b, AHT21_ADDR, <<AHT21_CMD_SOFT_RESET>>, 1, e.wacks)
    IN  IF w.res # IIC_OK
        THEN [res |-> AHT21_ERR_IIC, h |-> h, b |-> w.b]
        ELSE [res |-> AHT21_OK, h |-> [h EXCEPT !.state = AHT21_STATE_IDLE], b |-> w.b]

\* mutation: a failed write of the trigger command puts the device into ERROR
aht21_trigger_measure_error_on_nack(h, b, e) ==
    IF h.state = AHT21_STATE_WAIT_MEASURE
    THEN [res |-> AHT21_ERR_BUSY, h |-> h, b |-> b]
    ELSE LET w == iic_write(b, AHT21_ADDR, <<AHT21_CMD_TRIGGER, 51, 0>>, 3, e.wacks)
         IN  IF w.res # IIC_OK
             THEN [res |-> AHT21_ERR_IIC, h |-> [h EXCEPT !.state = AHT21_STATE_ERROR], b |-> w.b]
             ELSE [res |-> AHT21_OK,
                   h |-> [h EXCEPT !.state = AHT21_STATE_WAIT_MEASURE, !.measure_ticks = 0],
                   b |-> w.b]

\* mutation: the WAIT_MEASURE guard is missing
aht21_trigger_measure_unguarded(h, b, e) ==
    LET w == iic_write(b, AHT21_ADDR, <<AHT21_CMD_TRIGGER, 51, 0>>, 3, e.wacks)
    IN  IF w.res # IIC_OK
        THEN [res |-> AHT21_ERR_IIC, h |-> h, b |-> w.b]
        ELSE [res |-> AHT21_OK,
              h |-> [h EXCEPT !.state = AHT21_STATE_WAIT_MEASURE, !.measure_ticks = 0],
              b |-> w.b]

aht21_trigger_measure(h, b, e) ==
    IF h.state = AHT21_STATE_WAIT_MEASURE
    THEN [res |-> AHT21_ERR_BUSY, h |-> h, b |-> b]
    ELSE LET w == iic_write(b, AHT21_ADDR, <<AHT21_CMD_TRIGGER, 51, 0>>, 3, e.wacks)
         IN  IF w.res # IIC_OK
             THEN [res |-> AHT21_ERR_IIC, h |-> h, b |-> w.b]
             ELSE [res |-> AHT21_OK,
                   h |-> [h EXCEPT !.state = AHT21_STATE_WAIT_MEASURE, !.measure_ticks = 0],
                   b |-> w.b]

\* mutation: the busy bit of the status byte is not tested
aht21_read_data_ignore_busy(h, b, e) ==
    LET c == aht21_check_status(h, b, e)
    IN  IF c.res # AHT21_OK
        THEN [res |-> AHT21_ERR_IIC, h |-> h, b |-> c.b]
        ELSE LET r == iic_read(c.b, AHT21_ADDR, h.raw_data, 7, e.rack, e.frame)
             IN  IF r.res # IIC_OK
                 THEN [res |-> AHT21_ERR_IIC, h |-> [h EXCEPT !.raw_data = r.data], b |-> r.b]
                 ELSE [res |-> IF BitAnd(c.status, AHT21_STATUS_BUSY) # 0
                               THEN AHT21_ERR_BUSY ELSE AHT21_OK,
                       h |-> [aht21_parse_data([h EXCEPT !.raw_data = r.data])
                                EXCEPT !.state = AHT21_STATE_READY],
                       b |-> r.b]

aht21_read_data(h, b, e) ==
    LET c == aht21_check_status(h, b, e)
    IN  IF c.res # AHT21_OK
        THEN [res |-> AHT21_ERR_IIC, h |-> h, b |-> c.b]
        ELSE IF BitAnd(c.status, AHT21_STATUS_BUSY) # 0
        THEN [res |-> AHT21_ERR_BUSY, h |-> h, b |-> c.b]
        ELSE LET r == iic_read(c.b, AHT21_ADDR, h.raw_data, 7, e.rack, e.frame)
             IN  IF r.res # IIC_OK
                 THEN [res |-> AHT21_ERR_IIC, h |-> [h EXCEPT !.raw_data = r.data], b |-> r.b]
                 ELSE [res |-> AHT21_OK,
                       h |-> [aht21_parse_data([h EXCEPT !.raw_data = r.data])
                                EXCEPT !.state = AHT21_STATE_READY],
                       b |-> r.b]

\* temp_ok: the out pointer is not null; temp: what the caller's float holds
aht21_get_temperature(h, temp_ok, temp) ==
    IF ~temp_ok THEN [res |-> AHT21_ERR_INVALID_PARAM, val |-> temp]
    ELSE IF h.state # AHT21_STATE_READY THEN [res |-> AHT21_ERR_NOT_INIT, val |-> temp]
    ELSE [res |-> AHT21_OK, val |-> h.temperature]

aht21_get_humidity(h, humi_ok, humi) ==
    IF ~humi_ok THEN [res |-> AHT21_ERR_INVALID_PARAM, val |-> humi]
    ELSE IF h.state # AHT21_STATE_READY THEN [res |-> AHT21_ERR_NOT_INIT, val |-> humi]
    ELSE [res |-> AHT21_OK, val |-> h.humidity]

\* mutation: no measurement is started from IDLE
aht21_ticks_idle_waits(h, b, e) ==
    CASE h.state = AHT21_STATE_IDLE ->
            [h |-> h, b |-> b]
      [] h.state = AHT21_STATE_WAIT_MEASURE ->
            LET h1 == [h EXCEPT !.measure_ticks = @ + 1]
            IN  IF h1.measure_ticks >= 80 \div 5
                THEN LET r == aht21_read_data(h1, b, e)
                     IN  IF r.res = AHT21_OK
                         THEN [h |-> [r.h EXCEPT !.state = AHT21_STATE_READY], b |-> r.b]
                         ELSE [h |-> r.h, b |-> r.b]
                ELSE [h |-> h1, b |-> b]
      [] h.state = AHT21_STATE_READY ->
            LET h1 == [h EXCEPT !.measure_ticks = @ + 1]
            IN  IF h1.measure_ticks >= h1.measure_interval \div 5
                THEN [h |-> [h1 EXCEPT !.state = AHT21_STATE_IDLE, !.measure_ticks = 0], b |-> b]
                ELSE [h |-> h1, b |-> b]
      [] h.state = AHT21_STATE_ERROR ->
            LET r == aht21_soft_reset(h, b, e) IN [h |-> r.h, b |-> r.b]
      [] OTHER ->
            [h |-> [h EXCEPT !.state = AHT21_STATE_IDLE], b |-> b]

\* mutation: the counter restarts at 0 when the device enters READY
aht21_ticks_ready_restart(h, b, e) ==
    CASE h.state = AHT21_STATE_IDLE ->
            LET r == aht21_trigger_measure(h, b, e) IN [h |-> r.h, b |-> r.b]
      [] h.state = AHT21_STATE_WAIT_MEASURE ->
            LET h1 == [h EXCEPT !.measure_ticks = @ + 1]
            IN  IF h1.measure_ticks >= 80 \div 5
                THEN LET r == aht21_read_data(h1, b, e)
                     IN  IF r.res = AHT21_OK
                         THEN [h |-> [r.h EXCEPT !.state = AHT21_STATE_READY, !.measure_ticks = 0],
                               b |-> r.b]
                         ELSE [h |-> r.h, b |-> r.b]
                ELSE [h |-> h1, b |-> b]
      [] h.state = AHT21_STATE_READY ->
            LET h1 == [h EXCEPT !.measure_ticks = @ + 1]
            IN  IF h1.measure_ticks >= h1.measure_interval \div 5
                THEN [h |-> [h1 EXCEPT !.state = AHT21_STATE_IDLE, !.measure_ticks = 0], b |-> b]
                ELSE [h |-> h1, b |-> b]
      [] h.state = AHT21_STATE_ERROR ->
            LET r == aht21_soft_reset(h, b, e) IN [h |-> r.h, b |-> r.b]
      [] OTHER ->
            [h |-> [h EXCEPT !.state = AHT21_STATE_IDLE], b |-> b]

\* mutation: in WAIT_MEASURE a read is attempted on every tick
aht21_ticks_read_early(h, b, e) ==
    CASE h.state = AHT21_STATE_IDLE ->
            LET r == aht21_trigger_measure(h, b, e) IN [h |-> r.h, b |-> r.b]
      [] h.state = AHT21_STATE_WAIT_MEASURE ->
            LET h1 == [h EXCEPT !.measure_ticks = @ + 1]
                r  == aht21_read_data(h1, b, e)
            IN  [h |-> r.h, b |-> r.b]
      [] h.state = AHT21_STATE_READY ->
            LET h1 == [h EXCEPT !.measure_ticks = @ + 1]
            IN  IF h1.measure_ticks >= h1.measure_interval \div 5
                THEN [h |-> [h1 EXCEPT !.state = AHT21_STATE_IDLE, !.measure_ticks = 0], b |-> b]
                ELSE [h |-> h1, b |-> b]
      [] h.state = AHT21_STATE_ERROR ->
            LET r == aht21_soft_reset(h, b, e) IN [h |-> r.h, b |-> r.b]
      [] OTHER ->
            [h |-> [h EXCEPT !.state = AHT21_STATE_IDLE], b |-> b]

\* measure_ticks is a uint32_t: ++ wraps at 2^32, which the counter, capped at
\* MaxTicks by the callers below, never comes near
aht21_ticks(h, b, e) ==
    CASE h.state = AHT21_STATE_IDLE ->
            LET r == aht21_trigger_measure(h, b, e) IN [h |-> r.h, b |-> r.b]
      [] h.state = AHT21_STATE_WAIT_MEASURE ->
            LET h1 == [h EXCEPT !.measure_ticks = @ + 1]
            IN  IF h1.measure_ticks >= 80 \div 5
                THEN LET r == aht21_read_data(h1, b, e)
                     IN  IF r.res = AHT21_OK
                         THEN [h |-> [r.h EXCEPT !.state = AHT21_STATE_READY], b |-> r.b]
                         ELSE [h |-> r.h, b |-> r.b]
                ELSE [h |-> h1, b |-> b]
      [] h.state = AHT21_STATE_READY ->
            LET h1 == [h EXCEPT !.measure_ticks = @ + 1]
            IN  IF h1.measure_ticks >= h1.measure_interval \div 5
                THEN [h |-> [h1 EXCEPT !.state = AHT21_STATE_IDLE, !.measure_ticks = 0], b |-> b]
                ELSE [h |-> h1, b |-> b]
      [] h.state = AHT21_STATE_ERROR ->
            LET r == aht21_soft_reset(h, b, e) IN [h |-> r.h, b |-> r.b]
      [] OTHER ->
            [h |-> [h EXCEPT !.state = AHT21_STATE_IDLE], b |-> b]

\* mutation: a failed read gives the measurement up and puts the device back to IDLE
aht21_read_blocking_gives_up(h, b, e, temp, humi) ==
    LET t == aht21_trigger_measure(h, b, e)
    IN  IF t.res # AHT21_OK
        THEN [res |-> t.res, h |-> t.h, b |-> t.b, temp |-> temp, humi |-> humi]
        ELSE LET r == aht21_read_data(t.h, t.b, e)
             IN  IF r.res # AHT21_OK
                 THEN [res |-> r.res, h |-> [r.h EXCEPT !.state = AHT21_STATE_IDLE], b |-> r.b,
                       temp |-> temp, humi |-> humi]
                 ELSE [res |-> AHT21_OK, h |-> r.h, b |-> r.b,
                       temp |-> r.h.temperature, humi |-> r.h.humidity]

\* temp, humi: what the caller's floats hold (both pointers not null)
aht21_read_blocking(h, b, e, temp, humi) ==
    LET t == aht21_trigger_measure(h, b, e)
    IN  IF t.res # AHT21_OK
        THEN [res |-> t.res, h |-> t.h, b |-> t.b, temp |-> temp, humi |-> humi]
        ELSE LET r == aht21_read_data(t.h, t.b, e)
             IN  IF r.res # AHT21_OK
                 THEN [res |-> r.res, h |-> r.h, b |-> r.b, temp |-> temp, humi |-> humi]
                 ELSE [res |-> AHT21_OK, h |-> r.h, b |-> r.b,
                       temp |-> r.h.temperature, humi |-> r.h.humidity]

(* ========================== Backend Adapter =========================== *)

aht21_adapter_reset(h, b, e) ==
    LET r == aht21_soft_reset(h, b, e)
    IN  [res |-> IF r.res = AHT21_OK THEN SENSOR_OK ELSE SENSOR_ERR_COMM, h |-> r.h, b |-> r.b]

aht21_adapter_trigger(h, b, e) ==
    LET r == aht21_trigger_measure(h, b, e)
    IN  [res |-> IF r.res = AHT21_OK THEN SENSOR_OK
                 ELSE IF r.res = AHT21_ERR_BUSY THEN SENSOR_ERR_BUSY
                 ELSE SENSOR_ERR_COMM,
         h |-> r.h, b |-> r.b]

aht21_adapter_read(h, b, e) ==
    LET r == aht21_read_data(h, b, e)
    IN  [res |-> IF r.res = AHT21_OK THEN SENSOR_OK
                 ELSE IF r.res = AHT21_ERR_BUSY THEN SENSOR_ERR_BUSY
                 ELSE SENSOR_ERR_COMM,
         h |-> r.h, b |-> r.b]

aht21_adapter_get_temp(h, temp) ==
    LET r == aht21_get_temperature(h, TRUE, temp)
    IN  [res |-> IF r.res = AHT21_OK THEN SENSOR_OK ELSE SENSOR_ERR_NOT_READY, val |-> r.val]

aht21_adapter_get_humi(h, humi) ==
    LET r == aht21_get_humidity(h, TRUE, humi)
    IN  [res |-> IF r.res = AHT21_OK THEN SENSOR_OK ELSE SENSOR_ERR_NOT_READY, val |-> r.val]

aht21_adapter_get_state(h) ==
    CASE h.state = AHT21_STATE_IDLE         -> SENSOR_STATE_IDLE
      [] h.state = AHT21_STATE_WAIT_MEASURE -> SENSOR_STATE_MEASURING
      [] h.state = AHT21_STATE_READY        -> SENSOR_STATE_READY
      [] h.state = AHT21_STATE_ERROR        -> SENSOR_STATE_ERROR
      [] OTHER                              -> SENSOR_STATE_IDLE

(* =================== Sensor Abstraction & Scheduler =================== *)

\* the TempHumiSensor after sensor_init (memset, then state = IDLE); type, ops and
\* driver_handle are fixed per instance and not stored
SensorZeroed ==
    [state |-> SENSOR_STATE_IDLE, temperature |-> 0, humidity |-> 0, next |-> NULL]

\* ops->init is aht21_adapter_init, which does nothing
sensor_init(s) == SensorZeroed

sensor_reset(s, h, b, e) ==
    LET r == aht21_adapter_reset(h, b, e)
    IN  [res |-> r.res,
         s |-> IF r.res = SENSOR_OK THEN [s EXCEPT !.state = SENSOR_STATE_IDLE] ELSE s,
         h |-> r.h, b |-> r.b]

sensor_trigger_measure(s, h, b, e) ==
    LET r == aht21_adapter_trigger(h, b, e)
    IN  [res |-> r.res,
         s |-> IF r.res = SENSOR_OK THEN [s EXCEPT !.state = SENSOR_STATE_MEASURING] ELSE s,
         h |-> r.h, b |-> r.b]

\* mutation: the cache is refreshed whatever the backend read returns
sensor_read_data_unchecked(s, h, b, e) ==
    LET r == aht21_adapter_read(h, b, e)
    IN  [res |-> r.res,
         s |-> [s EXCEPT !.temperature = aht21_adapter_get_temp(r.h, @).val,
                         !.humidity = aht21_adapter_get_humi(r.h, @).val,
                         !.state = SENSOR_STATE_READY],
         h |-> r.h, b |-> r.b]

sensor_read_data(s, h, b, e) ==
    LET r == aht21_adapter_read(h, b, e)
    IN  [res |-> r.res,
         s |-> IF r.res = SENSOR_OK
               THEN [s EXCEPT !.temperature = aht21_adapter_get_temp(r.h, @).val,
                              !.humidity = aht21_adapter_get_humi(r.h, @).val,
                              !.state = SENSOR_STATE_READY]
               ELSE s,
         h |-> r.h, b |-> r.b]

\* mutation: the state test is missing
sensor_get_temperature_unchecked(s, temp_ok, temp) ==
    IF ~temp_ok THEN [res |-> SENSOR_ERR_INVALID_PARAM, temp |-> temp]
    ELSE [res |-> SENSOR_OK, temp |-> s.temperature]

\* temp_ok: the out pointer is not null; temp: what the caller's float holds
sensor_get_temperature(s, temp_ok, temp) ==
    IF ~temp_ok THEN [res |-> SENSOR_ERR_INVALID_PARAM, temp |-> temp]
    ELSE IF s.state # SENSOR_STATE_READY THEN [res |-> SENSOR_ERR_NOT_READY, temp |-> temp]
    ELSE [res |-> SENSOR_OK, temp |-> s.temperature]

sensor_get_humidity(s, humi_ok, humi) ==
    IF ~humi_ok THEN [res |-> SENSOR_ERR_INVALID_PARAM, humi |-> humi]
    ELSE IF s.state # SENSOR_STATE_READY THEN [res |-> SENSOR_ERR_NOT_READY, humi |-> humi]
    ELSE [res |-> SENSOR_OK, humi |-> s.humidity]

sensor_get_both(s, temp_ok, temp, humi_ok, humi) ==
    IF ~temp_ok \/ ~humi_ok
    THEN [res |-> SENSOR_ERR_INVALID_PARAM, temp |-> temp, humi |-> humi]
    ELSE IF s.state # SENSOR_STATE_READY
    THEN [res |-> SENSOR_ERR_NOT_READY, temp |-> temp, humi |-> humi]
    ELSE [res |-> SENSOR_OK, temp |-> s.temperature, humi |-> s.humidity]

\* ops->get_state is aht21_adapter_get_state
sensor_get_state(h) == aht21_adapter_get_state(h)

\* the while loop of sensor_start: TRUE when handle is met on the list
RECURSIVE sensor_start_scan(_, _, _)
sensor_start_scan(tgt, sn, handle) ==
    IF tgt = NULL THEN FALSE
    ELSE IF tgt = handle THEN TRUE
    ELSE sensor_start_scan(sn[tgt].next, sn, handle)

\* the last entry of the list that starts at tgt (tgt # NULL)
RECURSIVE ListTail(_, _)
ListTail(tgt, sn) == IF sn[tgt].next = NULL THEN tgt ELSE ListTail(sn[tgt].next, sn)

\* mutation: the new instance is linked behind the last entry, not before the first
sensor_start_at_tail(head, sn, handle) ==
    IF handle = NULL THEN [ret |-> START_NULL, head |-> head, sen |-> sn]
    ELSE IF sensor_start_scan(head, sn, handle)
    THEN [ret |-> START_DUPLICATE, head |-> head, sen |-> sn]
    ELSE IF head = NULL
    THEN [ret |-> START_INSERTED, head |-> handle, sen |-> [sn EXCEPT ![handle].next = NULL]]
    ELSE [ret |-> START_INSERTED, head |-> head,
          sen |-> [sn EXCEPT ![ListTail(head, sn)].next = handle, ![handle].next = NULL]]

\* mutation: only the head of the list is compared with the handle
sensor_start_head_only(head, sn, handle) ==
    IF handle = NULL THEN [ret |-> START_NULL, head |-> head, sen |-> sn]
    ELSE IF head = handle THEN [ret |-> START_DUPLICATE, head |-> head, sen |-> sn]
    ELSE [ret |-> START_INSERTED, head |-> handle,
          sen |-> [sn EXCEPT ![handle].next = head]]

sensor_start(head, sn, handle) ==
    IF handle = NULL THEN [ret |-> START_NULL, head |-> head, sen |-> sn]
    ELSE IF sensor_start_scan(head, sn, handle)
    THEN [ret |-> START_DUPLICATE, head |-> head, sen |-> sn]
    ELSE [ret |-> START_INSERTED, head |-> handle,
          sen |-> [sn EXCEPT ![handle].next = head]]

\* mutation: the predecessor is not relinked to the successor of the removed entry
RECURSIVE sensor_stop_loop_drop_tail(_, _, _, _)
sensor_stop_loop_drop_tail(curr, head, sn, handle) ==
    LET entry == IF curr = NULL THEN head ELSE sn[curr].next
    IN  IF entry = NULL THEN [head |-> head, sen |-> sn]
        ELSE IF entry = handle
        THEN LET hd1 == IF curr = NULL THEN NULL ELSE head
                 sn1 == IF curr = NULL THEN sn ELSE [sn EXCEPT ![curr].next = NULL]
             IN  [head |-> hd1, sen |-> [sn1 EXCEPT ![entry].next = NULL]]
        ELSE sensor_stop_loop_drop_tail(entry, head, sn, handle)

\* mutation: the removed entry keeps its next pointer
RECURSIVE sensor_stop_loop_keep_next(_, _, _, _)
sensor_stop_loop_keep_next(curr, head, sn, handle) ==
    LET entry == IF curr = NULL THEN head ELSE sn[curr].next
    IN  IF entry = NULL THEN [head |-> head, sen |-> sn]
        ELSE IF entry = handle
        THEN LET nxt == sn[entry].next
                 hd1 == IF curr = NULL THEN nxt ELSE head
                 sn1 == IF curr = NULL THEN sn ELSE [sn EXCEPT ![curr].next = nxt]
             IN  [head |-> hd1, sen |-> sn1]
        ELSE sensor_stop_loop_keep_next(entry, head, sn, handle)

\* the for loop of sensor_stop; curr = NULL stands for &head_sensor and
\* curr = s for &sen[s].next
RECURSIVE sensor_stop_loop(_, _, _, _)
sensor_stop_loop(curr, head, sn, handle) ==
    LET entry == IF curr = NULL THEN head ELSE sn[curr].next
    IN  IF entry = NULL THEN [head |-> head, sen |-> sn]
        ELSE IF entry = handle
        THEN LET nxt == sn[entry].next
                 hd1 == IF curr = NULL THEN nxt ELSE head
                 sn1 == IF curr = NULL THEN sn ELSE [sn EXCEPT ![curr].next = nxt]
             IN  [head |-> hd1, sen |-> [sn1 EXCEPT ![entry].next = NULL]]
        ELSE sensor_stop_loop(entry, head, sn, handle)

sensor_stop(head, sn, handle) ==
    IF handle = NULL THEN [head |-> head, sen |-> sn]
    ELSE sensor_stop_loop(NULL, head, sn, handle)

\* the result codes of the calls are dropped by the code; res is kept for the record
\* mutation: a READY instance is triggered again
sensor_handler_retrigger(s, h, b, e) ==
    LET state == sensor_get_state(h)
    IN  CASE state = SENSOR_STATE_IDLE      -> sensor_trigger_measure(s, h, b, e)
          [] state = SENSOR_STATE_MEASURING -> sensor_read_data(s, h, b, e)
          [] state = SENSOR_STATE_READY     -> sensor_trigger_measure(s, h, b, e)
          [] state = SENSOR_STATE_ERROR     -> sensor_reset(s, h, b, e)
          [] OTHER                          -> [res |-> SENSOR_OK, s |-> s, h |-> h, b |-> b]

sensor_handler(s, h, b, e) ==
    LET state == sensor_get_state(h)
    IN  CASE state = SENSOR_STATE_IDLE      -> sensor_trigger_measure(s, h, b, e)
          [] state = SENSOR_STATE_MEASURING -> sensor_read_data(s, h, b, e)
          [] state = SENSOR_STATE_READY     -> [res |-> SENSOR_OK, s |-> s, h |-> h, b |-> b]
          [] state = SENSOR_STATE_ERROR     -> sensor_reset(s, h, b, e)
          [] OTHER                          -> [res |-> SENSOR_OK, s |-> s, h |-> h, b |-> b]

(* ============================ Environment ============================= *)

SdaLevels == {0, 1}

\* 0x38 and 0xB8: the second one loses its top bit in addr << 1
Addrs == {AHT21_ADDR, AHT21_ADDR + 128}

PayloadBytes == {AHT21_CMD_TRIGGER, 255}

\* the caller's buffers of a stand-alone iic_write: the three commands the driver
\* sends, and one payload of every length 1..MaxLen whose bytes all differ
WriteBufs ==
    {<<AHT21_CMD_INIT, 8, 0>>, <<AHT21_CMD_TRIGGER, 51, 0>>, <<AHT21_CMD_SOFT_RESET>>}
    \cup {[i \in 1..n |-> (i * 37) % 256] : n \in 1..MaxLen}

\* slave scripts for a driver write: the slave NACKs at most one byte position
AckScripts == {<<0, 0, 0, 0>>, <<1, 0, 0, 0>>, <<0, 1, 0, 0>>, <<0, 0, 1, 0>>, <<0, 0, 0, 1>>}

\* calibrated and idle, calibrated and busy, not calibrated
StatusBytes == {24, 152, 16}

\* 50 % / 25 C and 30 % / 20 C
Frames == {<<28, 128, 0, 6, 0, 0, 0>>, <<24, 76, 204, 213, 153, 154, 90>>}

QuietEnv == SlaveEnv(<<0, 0, 0, 0>>, 0, 24, 0, <<28, 128, 0, 6, 0, 0, 0>>)

WriteEnvs == {[QuietEnv EXCEPT !.wacks = a] : a \in AckScripts}

ReadEnvs ==
    {SlaveEnv(QuietEnv.wacks, sa, st, ra, f) :
        sa \in SdaLevels, st \in StatusBytes, ra \in SdaLevels, f \in Frames}

InitEnvs ==
    {SlaveEnv(a, sa, st, QuietEnv.rack, QuietEnv.frame) :
        a \in AckScripts, sa \in SdaLevels, st \in StatusBytes}

Envs ==
    {SlaveEnv(a, sa, st, ra, f) :
        a \in AckScripts, sa \in SdaLevels, st \in StatusBytes, ra \in SdaLevels, f \in Frames}

\* the part of the slave's behaviour that aht21_ticks can observe in state st
TickEnvs(st) ==
    CASE st = AHT21_STATE_IDLE         -> WriteEnvs
      [] st = AHT21_STATE_ERROR        -> WriteEnvs
      [] st = AHT21_STATE_WAIT_MEASURE -> ReadEnvs
      [] OTHER                         -> {QuietEnv}

\* the part of the slave's behaviour that sensor_handler can observe in backend state st
HandlerEnvs(st) ==
    CASE st = SENSOR_STATE_IDLE      -> WriteEnvs
      [] st = SENSOR_STATE_ERROR     -> WriteEnvs
      [] st = SENSOR_STATE_MEASURING -> ReadEnvs
      [] OTHER                       -> {QuietEnv}

\* a slave that answers nothing
DeadEnv == SlaveEnv(<<1, 0, 0, 0>>, 1, QuietEnv.status, 1, QuietEnv.frame)

\* the slave of the registry specification: all there or not there
OnOffEnvs(st) == {QuietEnv, DeadEnv}

\* what a float of the caller may hold before a getter is called on it
CallerFloats == {1, 2}

\* the device the driver-level specification exercises
DrvDevices == {1}

\* every AHT21_Handle a first aht21_init can leave behind
InitOutcomes == {aht21_init(AHT21_Zeroed, Line(0, <<>>), TRUE, e).h : e \in InitEnvs}

(* ========================= Observation helpers ======================== *)

\* the registry as the list reached from t; fuel makes a cycle show as a repetition
RECURSIVE Walk(_, _, _)
Walk(t, sn, fuel) ==
    IF t = NULL \/ fuel = 0 THEN <<>> ELSE <<t>> \o Walk(sn[t].next, sn, fuel - 1)

Registry == Walk(head_sensor, sen, NumSensors + 1)

\* the record of an API call.  data: the caller's payload (iic_write), the slave's
\* bytes (iic_read), the registry before the call (sensor_start, sensor_stop) or
\* the output pointers given to a getter, 1 for a location and 0 for a null pointer;
\* out: the caller's buffer after iic_read
CallRec(op, h, ret, addr, data, len, acks, out) ==
    [op |-> op, h |-> h, ret |-> ret, addr |-> addr, data |-> data, len |-> len,
     acks |-> acks, out |-> out]

Ptr(ok) == IF ok THEN 1 ELSE 0

Call(op, h, ret) == CallRec(op, h, ret, 0, <<>>, 0, <<>>, <<>>)

busVars  == <<bus_busy, wire>>
drvVars  == <<dev, cycle_open, unread, ready_ticks>>

\* ready_ticks after a call on device d that has set dev'; tick: the call is aht21_ticks
ReadyTicks(d, tick) ==
    [ready_ticks EXCEPT
        ![d] = IF dev[d].state = AHT21_STATE_READY /\ dev'[d].state = AHT21_STATE_READY
               THEN (IF tick THEN @ + 1 ELSE @)
               ELSE 0]
regVars  == <<head_sensor, regOrder>>
tickVars == <<ticking, target, invoked>>
outVars  == <<out_temp, out_humi>>
blkVars  == <<blk_pc, blk_timeout, polls>>

\* the code is single-threaded: a call starts when no other call is running
NoCallRunning == ~ticking /\ blk_pc = "idle"

(* =============================== Init ================================= *)

InitCommon ==
    /\ bus_busy = 0
    /\ wire = <<>>
    /\ head_sensor = NULL
    /\ ticking = FALSE
    /\ target = NULL
    /\ invoked = <<>>
    /\ regOrder = <<>>
    /\ cycle_open = [d \in Devices |-> FALSE]
    /\ unread = [d \in Devices |-> FALSE]
    /\ ready_ticks = [d \in Devices |-> 0]
    /\ blk_pc = "idle"
    /\ blk_timeout = 0
    /\ polls = 0
    /\ call = Call("none", NULL, 0)

\* iic_init, then aht21_init on every device with an answering slave, then sensor_init
InitBus ==
    /\ InitCommon
    /\ out_temp = 1
    /\ out_humi = 1
    /\ dev = [d \in Devices |-> [AHT21_Zeroed EXCEPT !.state = AHT21_STATE_IDLE]]
    /\ sen = [s \in Sensors |-> SensorZeroed]

\* every device was initialised once, with any outcome
InitDrv ==
    /\ InitCommon
    /\ out_temp = 1
    /\ out_humi = 1
    /\ dev \in [Devices -> InitOutcomes]
    /\ \A d \in Devices \ DrvDevices : dev[d].state = AHT21_STATE_IDLE
    /\ sen = [s \in Sensors |-> SensorZeroed]

InitReg ==
    /\ InitCommon
    /\ out_temp = 1
    /\ out_humi = 1
    /\ dev \in [Devices -> InitOutcomes]
    /\ sen = [s \in Sensors |-> SensorZeroed]

\* the getters are functions of the instance's fields alone: the fields of
\* instance 1 range over every state value and over cached readings
InitGet ==
    /\ InitCommon
    /\ out_temp \in CallerFloats
    /\ out_humi \in CallerFloats
    /\ dev = [d \in Devices |-> [AHT21_Zeroed EXCEPT !.state = AHT21_STATE_IDLE]]
    /\ \E st \in {SENSOR_STATE_IDLE, SENSOR_STATE_MEASURING, SENSOR_STATE_READY, SENSOR_STATE_ERROR},
          f \in Frames, g \in Frames :
          sen = [s \in Sensors |->
                    IF s = 1
                    THEN [state |-> st,
                          temperature |-> aht21_parse_data([AHT21_Zeroed EXCEPT !.raw_data = f]).temperature,
                          humidity |-> aht21_parse_data([AHT21_Zeroed EXCEPT !.raw_data = g]).humidity,
                          next |-> NULL]
                    ELSE SensorZeroed]

(* ======================== Bus Engine actions ========================== *)

iic_write_call ==
    /\ NoCallRunning
    /\ \E addr \in Addrs, data \in WriteBufs \cup {NULL_BUF}, zero \in BOOLEAN :
          LET len == IF zero THEN 0 ELSE IF data = NULL_BUF THEN 1 ELSE Len(data)
          IN  \E acks \in [1..(len + 1) -> SdaLevels] :
                 LET r == iic_write(Line(bus_busy, <<>>), addr, data, len, acks)
                 IN  /\ bus_busy' = r.b.bus_busy
                     /\ wire' = r.b.wire
                     /\ call' = CallRec("iic_write", NULL, r.res, addr, data, len, acks, <<>>)
    /\ UNCHANGED <<drvVars, sen, regVars, tickVars, outVars, blkVars>>

iic_read_call ==
    /\ NoCallRunning
    /\ \E addr \in Addrs, len \in 0..MaxLen, buf_ok \in BOOLEAN, sda \in SdaLevels :
          \E rx \in [1..len -> PayloadBytes] :
             LET buf == IF buf_ok THEN [i \in 1..MaxLen |-> 0] ELSE NULL_BUF
                 r   == iic_read(Line(bus_busy, <<>>), addr, buf, len, sda, rx)
             IN  /\ bus_busy' = r.b.bus_busy
                 /\ wire' = r.b.wire
                 /\ call' = CallRec("iic_read", IF buf_ok THEN 1 ELSE NULL, r.res, addr, rx,
                                    len, <<sda>>, r.data)
    /\ UNCHANGED <<drvVars, sen, regVars, tickVars, outVars, blkVars>>

NextBus == iic_write_call \/ iic_read_call

SpecBus == InitBus /\ [][NextBus]_vars

(* ======================= Protocol Driver actions ====================== *)

\* the effect of a driver call on device d; r = [res, h, b] is what the operation returns
DrvDone(op, d, r) ==
    /\ dev' = [dev EXCEPT ![d] = r.h]
    /\ bus_busy' = r.b.bus_busy
    /\ wire' = r.b.wire
    /\ call' = Call(op, d, r.res)

\* every driver operation rejects a null handle before it does anything
DrvNullHandle(op) ==
    /\ wire' = <<>>
    /\ call' = Call(op, NULL, AHT21_ERR_INVALID_PARAM)
    /\ UNCHANGED <<bus_busy, dev, cycle_open, unread, ready_ticks>>

aht21_init_call ==
    /\ NoCallRunning
    /\ \/ DrvNullHandle("aht21_init")
       \/ \E d \in DrvDevices, iic_ok \in BOOLEAN, e \in InitEnvs :
             LET r == aht21_init(dev[d], Line(bus_busy, <<>>), iic_ok, e)
             IN  /\ DrvDone("aht21_init", d, r)
                 /\ cycle_open' = [cycle_open EXCEPT
                                      ![d] = IF r.res = AHT21_ERR_INVALID_PARAM THEN @ ELSE FALSE]
                 /\ ready_ticks' = ReadyTicks(d, FALSE)
                 /\ unread' = [unread EXCEPT
                                      ![d] = IF r.res = AHT21_ERR_INVALID_PARAM THEN @ ELSE FALSE]
    /\ UNCHANGED <<sen, regVars, tickVars, outVars, blkVars>>

aht21_soft_reset_call ==
    /\ NoCallRunning
    /\ \/ DrvNullHandle("aht21_soft_reset")
       \/ \E d \in DrvDevices, e \in WriteEnvs :
             LET r == aht21_soft_reset(dev[d], Line(bus_busy, <<>>), e)
             IN  /\ DrvDone("aht21_soft_reset", d, r)
                 /\ cycle_open' = [cycle_open EXCEPT ![d] = IF r.res = AHT21_OK THEN FALSE ELSE @]
                 /\ ready_ticks' = ReadyTicks(d, FALSE)
                 /\ UNCHANGED unread
    /\ UNCHANGED <<sen, regVars, tickVars, outVars, blkVars>>

aht21_trigger_measure_call ==
    /\ NoCallRunning
    /\ \/ DrvNullHandle("aht21_trigger_measure")
       \/ \E d \in DrvDevices, e \in WriteEnvs :
             LET r == aht21_trigger_measure(dev[d], Line(bus_busy, <<>>), e)
             IN  /\ DrvDone("aht21_trigger_measure", d, r)
                 /\ cycle_open' = [cycle_open EXCEPT ![d] = IF r.res = AHT21_OK THEN TRUE ELSE @]
                 /\ ready_ticks' = ReadyTicks(d, FALSE)
                 /\ unread' = [unread EXCEPT ![d] = IF r.res = AHT21_OK THEN TRUE ELSE @]
    /\ UNCHANGED <<sen, regVars, tickVars, outVars, blkVars>>

aht21_read_data_call ==
    /\ NoCallRunning
    /\ \/ DrvNullHandle("aht21_read_data")
       \/ \E d \in DrvDevices, e \in ReadEnvs :
             LET r == aht21_read_data(dev[d], Line(bus_busy, <<>>), e)
             IN  /\ DrvDone("aht21_read_data", d, r)
                 /\ cycle_open' = [cycle_open EXCEPT ![d] = IF r.res = AHT21_OK THEN FALSE ELSE @]
                 /\ ready_ticks' = ReadyTicks(d, FALSE)
                 /\ unread' = [unread EXCEPT ![d] = IF r.res = AHT21_OK THEN FALSE ELSE @]
    /\ UNCHANGED <<sen, regVars, tickVars, outVars, blkVars>>

\* the tick counter is capped: no tick is modelled for a device that has waited MaxTicks ticks
aht21_ticks_call ==
    /\ NoCallRunning
    /\ \/ /\ wire' = <<>>
          /\ call' = Call("aht21_ticks", NULL, 0)
          /\ UNCHANGED <<bus_busy, dev, cycle_open, unread, ready_ticks>>
       \/ \E d \in DrvDevices : \E e \in TickEnvs(dev[d].state) :
             /\ dev[d].state = AHT21_STATE_WAIT_MEASURE => dev[d].measure_ticks < MaxTicks
             /\ LET st == dev[d].state
                    r  == aht21_ticks(dev[d], Line(bus_busy, <<>>), e)
                IN  /\ DrvDone("aht21_ticks", d, [res |-> 0, h |-> r.h, b |-> r.b])
                    /\ cycle_open' =
                          [cycle_open EXCEPT
                              ![d] = CASE st = AHT21_STATE_IDLE ->
                                             (r.h.state = AHT21_STATE_WAIT_MEASURE)
                                       [] st = AHT21_STATE_WAIT_MEASURE ->
                                             IF r.h.state = AHT21_STATE_READY THEN FALSE ELSE @
                                       [] st = AHT21_STATE_ERROR -> FALSE
                                       [] OTHER -> @]
                    /\ ready_ticks' = ReadyTicks(d, TRUE)
                    /\ unread' =
                          [unread EXCEPT
                              ![d] = CASE st = AHT21_STATE_IDLE ->
                                             (r.h.state = AHT21_STATE_WAIT_MEASURE)
                                       [] st = AHT21_STATE_WAIT_MEASURE ->
                                             IF r.h.state = AHT21_STATE_READY THEN FALSE ELSE @
                                       [] OTHER -> @]
    /\ UNCHANGED <<sen, regVars, tickVars, outVars, blkVars>>

NextDrv ==
    \/ aht21_init_call
    \/ aht21_soft_reset_call
    \/ aht21_trigger_measure_call
    \/ aht21_read_data_call
    \/ aht21_ticks_call

SpecDrv == InitDrv /\ [][NextDrv]_vars

(* ==================== Scheduler and registry actions ================== *)

\* no API call is made while a sensor_ticks pass is running: execution is single-threaded
sensor_start_call ==
    /\ NoCallRunning
    /\ \E handle \in Sensors \cup {NULL} :
          LET r == sensor_start(head_sensor, sen, handle)
          IN  /\ head_sensor' = r.head
              /\ sen' = r.sen
              /\ regOrder' = IF r.ret = START_INSERTED THEN <<handle>> \o regOrder ELSE regOrder
              /\ call' = CallRec("sensor_start", handle, r.ret, 0, Registry, 0, <<>>, <<>>)
    /\ wire' = <<>>
    /\ invoked' = <<>>
    /\ UNCHANGED <<bus_busy, drvVars, ticking, target, outVars, blkVars>>

sensor_stop_call ==
    /\ NoCallRunning
    /\ \E handle \in Sensors \cup {NULL} :
          LET r == sensor_stop(head_sensor, sen, handle)
          IN  /\ head_sensor' = r.head
              /\ sen' = r.sen
              /\ regOrder' = SelectSeq(regOrder, LAMBDA x : x # handle)
              /\ call' = CallRec("sensor_stop", handle, 0, 0, Registry, 0, <<>>, <<>>)
    /\ wire' = <<>>
    /\ invoked' = <<>>
    /\ UNCHANGED <<bus_busy, drvVars, ticking, target, outVars, blkVars>>

\* sensor_ticks, the initialisation of its for loop
sensor_ticks_begin ==
    /\ NoCallRunning
    /\ ticking' = TRUE
    /\ target' = head_sensor
    /\ invoked' = <<>>
    /\ wire' = <<>>
    /\ call' = Call("sensor_ticks", NULL, 0)
    /\ UNCHANGED <<bus_busy, drvVars, sen, regVars, outVars, blkVars>>

\* sensor_ticks, one iteration: sensor_handler(target), then target = target->next;
\* SlaveEnvs(st) is what the slave may do while the handler runs
TicksBody(SlaveEnvs(_)) ==
    /\ ticking
    /\ target # NULL
    /\ LET st == sensor_get_state(dev[target])
       IN  \E e \in SlaveEnvs(st) :
              \E r \in {sensor_handler(sen[target], dev[target], Line(bus_busy, <<>>), e)} :
                  /\ sen' = [sen EXCEPT ![target] = r.s]
                  /\ dev' = [dev EXCEPT ![target] = r.h]
                  /\ bus_busy' = r.b.bus_busy
                  /\ wire' = r.b.wire
                  /\ target' = r.s.next
                  /\ cycle_open' =
                        [cycle_open EXCEPT
                            ![target] = CASE st = SENSOR_STATE_IDLE ->
                                                IF r.res = SENSOR_OK THEN TRUE ELSE @
                                          [] st \in {SENSOR_STATE_MEASURING, SENSOR_STATE_ERROR} ->
                                                IF r.res = SENSOR_OK THEN FALSE ELSE @
                                          [] OTHER -> @]
                  /\ ready_ticks' = ReadyTicks(target, FALSE)
                  /\ unread' =
                        [unread EXCEPT
                            ![target] = CASE st = SENSOR_STATE_IDLE ->
                                                IF r.res = SENSOR_OK THEN TRUE ELSE @
                                          [] st = SENSOR_STATE_MEASURING ->
                                                IF r.res = SENSOR_OK THEN FALSE ELSE @
                                          [] OTHER -> @]
    /\ invoked' = Append(invoked, target)
    /\ UNCHANGED <<regVars, ticking, outVars, call, blkVars>>

sensor_ticks_body == TicksBody(HandlerEnvs)

sensor_ticks_body_onoff == TicksBody(OnOffEnvs)

\* sensor_ticks, the loop test fails and the function returns
sensor_ticks_return ==
    /\ ticking
    /\ target = NULL
    /\ ticking' = FALSE
    /\ UNCHANGED <<busVars, drvVars, sen, regVars, target, invoked, outVars, call, blkVars>>

NextReg ==
    \/ sensor_start_call
    \/ sensor_stop_call
    \/ sensor_ticks_begin
    \/ sensor_ticks_body_onoff
    \/ sensor_ticks_return

SpecReg == InitReg /\ [][NextReg]_vars

(* ============================ Getter actions ========================== *)

sensor_get_temperature_call ==
    /\ NoCallRunning
    /\ \/ /\ call' = Call("sensor_get_temperature", NULL, SENSOR_ERR_INVALID_PARAM)
          /\ UNCHANGED outVars
       \/ \E s \in Sensors, temp_ok \in BOOLEAN :
             LET r == sensor_get_temperature(sen[s], temp_ok, out_temp)
             IN  /\ out_temp' = r.temp
                 /\ call' = CallRec("sensor_get_temperature", s, r.res, 0, <<Ptr(temp_ok)>>, 0, <<>>, <<>>)
                 /\ UNCHANGED out_humi
    /\ wire' = <<>>
    /\ UNCHANGED <<bus_busy, drvVars, sen, regVars, tickVars, blkVars>>

sensor_get_humidity_call ==
    /\ NoCallRunning
    /\ \/ /\ call' = Call("sensor_get_humidity", NULL, SENSOR_ERR_INVALID_PARAM)
          /\ UNCHANGED outVars
       \/ \E s \in Sensors, humi_ok \in BOOLEAN :
             LET r == sensor_get_humidity(sen[s], humi_ok, out_humi)
             IN  /\ out_humi' = r.humi
                 /\ call' = CallRec("sensor_get_humidity", s, r.res, 0, <<Ptr(humi_ok)>>, 0, <<>>, <<>>)
                 /\ UNCHANGED out_temp
    /\ wire' = <<>>
    /\ UNCHANGED <<bus_busy, drvVars, sen, regVars, tickVars, blkVars>>

sensor_get_both_call ==
    /\ NoCallRunning
    /\ \/ /\ call' = Call("sensor_get_both", NULL, SENSOR_ERR_INVALID_PARAM)
          /\ UNCHANGED outVars
       \/ \E s \in Sensors, temp_ok \in BOOLEAN, humi_ok \in BOOLEAN :
             LET r == sensor_get_both(sen[s], temp_ok, out_temp, humi_ok, out_humi)
             IN  /\ out_temp' = r.temp
                 /\ out_humi' = r.humi
                 /\ call' = CallRec("sensor_get_both", s, r.res, 0, <<Ptr(temp_ok), Ptr(humi_ok)>>, 0, <<>>, <<>>)
    /\ wire' = <<>>
    /\ UNCHANGED <<bus_busy, drvVars, sen, regVars, tickVars, blkVars>>

NextGet ==
    \/ sensor_get_temperature_call
    \/ sensor_get_humidity_call
    \/ sensor_get_both_call

SpecGet == InitGet /\ [][NextGet]_vars

(* ============================== Claims ================================ *)

InSeq(x, q) == \E i \in 1..Len(q) : q[i] = x

NoRepeat(q) == \A i, j \in 1..Len(q) : i # j => q[i] # q[j]

\* C1: the registry never holds an instance twice.  sensor_start returns -2 exactly
\* for a null handle, -1 exactly for a handle that is on the registry, and then the
\* registry is the one before the call; any other handle gets 0 and is put in front.
C1_NoDuplicateRegistration ==
    /\ NoRepeat(Registry)
    /\ call.op = "sensor_start" =>
          /\ (call.ret = START_NULL) <=> (call.h = NULL)
          /\ (call.ret = START_DUPLICATE) <=> InSeq(call.h, call.data)
          /\ call.ret \in {START_NULL, START_DUPLICATE} => Registry = call.data
          /\ call.ret \notin {START_NULL, START_DUPLICATE} =>
                /\ call.ret = START_INSERTED
                /\ Registry = <<call.h>> \o call.data

C1_Witness ==
    /\ call.op = "sensor_start"
    /\ call.ret = START_DUPLICATE
    /\ Len(call.data) = 3
    /\ call.data[3] = call.h
    /\ Registry = call.data

\* C2: after sensor_stop the registry is the one before the call without the given
\* instance, the others in their order; for a null handle or an instance that is not
\* registered that is the registry before the call.
C2_StopRemovesExactlyOne ==
    call.op = "sensor_stop" =>
       /\ Registry = SelectSeq(call.data, LAMBDA x : x # call.h)
       /\ ~InSeq(call.h, call.data) => Registry = call.data

C2_Witness ==
    /\ call.op = "sensor_stop"
    /\ Len(call.data) = 3
    /\ call.data[2] = call.h
    /\ Registry = <<call.data[1], call.data[3]>>

\* C3: while a sensor_ticks pass runs, the handler has run for the instances of a
\* front part of the registry, most recently registered first, once each; when the
\* pass has returned, it has run once for every registered instance in that order.
C3_OneHandlerPerInstance ==
    call.op = "sensor_ticks" =>
       /\ Len(invoked) <= Len(regOrder)
       /\ invoked = SubSeq(regOrder, 1, Len(invoked))
       /\ ~ticking => invoked = regOrder
       /\ NoRepeat(regOrder)

C3_Witness ==
    /\ call.op = "sensor_ticks"
    /\ NoCallRunning
    /\ regOrder = <<2, 3, 1>>
    /\ invoked = <<2, 3, 1>>
    /\ \E s \in Sensors : sen[s].state = SENSOR_STATE_MEASURING

GetterOps == {"sensor_get_temperature", "sensor_get_humidity", "sensor_get_both"}

\* C4: a getter called with an instance and output locations returns NOT_READY and
\* leaves out_temp and out_humi as they were when the instance state is not READY;
\* when it is READY it returns OK and has stored the cached value in each location
\* it was given, and nothing in the other.
C4_GettersNeedReady ==
    [][ ( /\ call'.op \in GetterOps
          /\ call'.h # NULL
          /\ \A i \in 1..Len(call'.data) : call'.data[i] = 1 )
        =>
        LET s == sen[call'.h]
        IN  IF s.state # SENSOR_STATE_READY
            THEN /\ call'.ret = SENSOR_ERR_NOT_READY
                 /\ out_temp' = out_temp
                 /\ out_humi' = out_humi
            ELSE /\ call'.ret = SENSOR_OK
                 /\ out_temp' = IF call'.op = "sensor_get_humidity" THEN out_temp ELSE s.temperature
                 /\ out_humi' = IF call'.op = "sensor_get_temperature" THEN out_humi ELSE s.humidity
      ]_vars

C4_Witness ==
    /\ call.op = "sensor_get_both"
    /\ call.h # NULL
    /\ call.data = <<1, 1>>
    /\ call.ret = SENSOR_ERR_NOT_READY
    /\ sen[call.h].state = SENSOR_STATE_ERROR
    /\ out_temp \in CallerFloats
    /\ out_humi \in CallerFloats

\* position of the first byte the slave script NACKs, 0 when it NACKs none
FirstNack(acks) ==
    IF \E i \in 1..Len(acks) : acks[i] = 1
    THEN CHOOSE i \in 1..Len(acks) : acks[i] = 1 /\ \A j \in 1..(i - 1) : acks[j] = 0
    ELSE 0

\* the call recorded last had valid arguments
ValidBusCall == call.ret # IIC_ERR_INVALID_PARAM

\* the wire without the busy snapshots: <<kind, byte, level in the 9th clock>>
WireOps == [i \in 1..Len(wire) |-> <<wire[i].ev, wire[i].data, wire[i].sda>>]

\* C5: once a trigger_measure has returned OK, and until a read_data or a soft_reset
\* returns OK or an init runs, the device is in WAIT_MEASURE; a trigger_measure on a
\* device in WAIT_MEASURE returns BUSY, puts nothing on the bus and leaves the device,
\* its state and its elapsed-tick counter as they were.
C5_SecondTriggerBusy ==
    /\ [](\A d \in Devices : cycle_open[d] => dev[d].state = AHT21_STATE_WAIT_MEASURE)
    /\ [][\A d \in Devices :
             (/\ call'.op = "aht21_trigger_measure"
              /\ call'.h = d
              /\ (cycle_open[d] \/ dev[d].state = AHT21_STATE_WAIT_MEASURE))
             => /\ call'.ret = AHT21_ERR_BUSY
                /\ wire' = <<>>
                /\ dev'[d] = dev[d]
                /\ dev'[d].state = AHT21_STATE_WAIT_MEASURE
                /\ cycle_open'[d] = cycle_open[d]]_vars

\* C5 as stated: a trigger_measure on a device on which a trigger_measure returned OK
\* and no read_data returned OK since returns BUSY and leaves WAIT_MEASURE behind.
C5_AsStated ==
    [][\A d \in Devices :
          (/\ call'.op = "aht21_trigger_measure"
           /\ call'.h = d
           /\ unread[d])
          => /\ call'.ret = AHT21_ERR_BUSY
             /\ dev'[d].state = AHT21_STATE_WAIT_MEASURE]_vars

\* a trigger was refused while a cycle was open and ticks had already elapsed
C5_Witness ==
    /\ call.op = "aht21_trigger_measure"
    /\ call.ret = AHT21_ERR_BUSY
    /\ call.h \in Devices
    /\ cycle_open[call.h]
    /\ dev[call.h].measure_ticks > 0
    /\ wire = <<>>

\* the status byte of a read_data call as it appears on the wire
StatusOnWire(w) == IF Len(w) >= 3 /\ w[3].ev = "rbyte" THEN w[3].data ELSE 0

\* C6: a read_data whose status byte has bit 7 set returns BUSY and leaves the whole
\* device record (state, temperature, humidity, raw reply buffer, tick counter)
\* as it was.
C6_BusyReadChangesNothing ==
    [][(/\ call'.op = "aht21_read_data"
        /\ call'.h \in Devices
        /\ BitAnd(StatusOnWire(wire'), 128) # 0)
       => /\ call'.ret = AHT21_ERR_BUSY
          /\ dev' = dev]_vars

\* a busy status was read on a device that holds a reading and has ticked
C6_Witness ==
    /\ call.op = "aht21_read_data"
    /\ call.ret = AHT21_ERR_BUSY
    /\ call.h \in Devices
    /\ dev[call.h].state = AHT21_STATE_READY
    /\ dev[call.h].humidity # 0
    /\ dev[call.h].measure_ticks > 0
    /\ BitAnd(StatusOnWire(wire), 128) # 0

\* every transmitted byte on the wire was acknowledged
AllAcked(w) == \A i \in 1..Len(w) : w[i].ev = "wbyte" => w[i].sda = 0

\* a status byte with the calibration bit was received
CalibratedOnWire(w) ==
    \E i \in 1..Len(w) : w[i].ev = "rbyte" /\ BitAnd(w[i].data, 8) # 0

\* C7: after an aht21_init with valid arguments the device is IDLE and the result OK
\* exactly when every transfer was acknowledged and the status byte had bit 3 set;
\* a NACKed transfer gives ERROR with the bus error kind, a clear calibration bit
\* ERROR with the not-initialised kind; no device is ever left in INIT.
C7_InitOutcome ==
    /\ \A d \in Devices : dev[d].state # AHT21_STATE_INIT
    /\ (call.op = "aht21_init" /\ call.h \in Devices /\ call.ret # AHT21_ERR_INVALID_PARAM) =>
          LET st == dev[call.h].state
          IN  /\ (st = AHT21_STATE_IDLE /\ call.ret = AHT21_OK)
                    <=> (AllAcked(wire) /\ CalibratedOnWire(wire))
              /\ ~AllAcked(wire) => (st = AHT21_STATE_ERROR /\ call.ret = AHT21_ERR_IIC)
              /\ (AllAcked(wire) /\ ~CalibratedOnWire(wire))
                    => (st = AHT21_STATE_ERROR /\ call.ret = AHT21_ERR_NOT_INIT)
              /\ st \in {AHT21_STATE_IDLE, AHT21_STATE_ERROR}

\* every transfer was acknowledged but the sensor was not calibrated
C7_Witness ==
    /\ call.op = "aht21_init"
    /\ call.ret = AHT21_ERR_NOT_INIT
    /\ AllAcked(wire)
    /\ Len(wire) = 10
    /\ dev[call.h].state = AHT21_STATE_ERROR

\* C8: an iic_write transmits the address byte (addr << 1, 8 bits wide) and then the
\* payload bytes in order, up to and including the first byte the slave NACKs and
\* none after it (none of the payload when the address byte is NACKed); the stop
\* condition is the last thing on the wire; the result is NACK exactly when a
\* transmitted byte was NACKed.
C8_WriteAbortsOnNack ==
    (call.op = "iic_write" /\ ValidBusCall) =>
        LET k    == FirstNack(call.acks)
            n    == IF k = 0 THEN call.len + 1 ELSE k
            sent == <<(call.addr * 2) % 256>> \o SubSeq(call.data, 1, call.len)
        IN  /\ WireOps = <<<<"start", 0, 0>>>>
                         \o [i \in 1..n |-> <<"wbyte", sent[i], call.acks[i]>>]
                         \o <<<<"stop", 0, 0>>>>
            /\ call.ret = IF k = 0 THEN IIC_OK ELSE IIC_ERR_NACK

\* an address byte was NACKed with three payload bytes pending, the script would
\* have acknowledged them
C8_Witness ==
    /\ call.op = "iic_write"
    /\ call.len = 3
    /\ call.acks = <<1, 0, 0, 0>>
    /\ call.ret = IIC_ERR_NACK
    /\ Len(wire) = 3

\* C9: after an iic_write or iic_read with valid arguments the busy flag is 0, the
\* wire shows exactly one start (first) and exactly one stop (last), and the flag
\* was 1 after every event but the stop.
C9_BusyFramedByStartStop ==
    /\ bus_busy = 0
    /\ (call.op \in {"iic_write", "iic_read"} /\ ValidBusCall) =>
          /\ Len(wire) >= 2
          /\ wire[1].ev = "start"
          /\ wire[Len(wire)].ev = "stop"
          /\ Cardinality({i \in 1..Len(wire) : wire[i].ev = "start"}) = 1
          /\ Cardinality({i \in 1..Len(wire) : wire[i].ev = "stop"}) = 1
          /\ \A i \in 1..Len(wire) : wire[i].busy = IF i < Len(wire) THEN 1 ELSE 0

\* a write aborted by a NACK on its second payload byte released the bus
C9_Witness ==
    /\ call.op = "iic_write"
    /\ call.len = 3
    /\ FirstNack(call.acks) = 3
    /\ call.ret = IIC_ERR_NACK
    /\ bus_busy = 0
    /\ wire[Len(wire)].ev = "stop"

\* C10: an iic_read of len bytes sends the address byte (addr << 1) | 1; when it is
\* acknowledged, exactly len bytes are read, the controller answering ACK to every
\* byte but the last and NACK to the last, then stop, and the buffer holds the
\* bytes; when it is NACKed nothing is read, stop follows and the buffer is untouched.
C10_ReadAckPattern ==
    (call.op = "iic_read" /\ ValidBusCall) =>
        LET ab == (call.addr * 2 + 1) % 256
        IN  IF call.acks[1] = 0
            THEN /\ WireOps = <<<<"start", 0, 0>>, <<"wbyte", ab, 0>>>>
                              \o [i \in 1..call.len |->
                                     <<"rbyte", call.data[i], IF i < call.len THEN 0 ELSE 1>>]
                              \o <<<<"stop", 0, 0>>>>
                 /\ call.ret = IIC_OK
                 /\ SubSeq(call.out, 1, call.len) = call.data
            ELSE /\ WireOps = <<<<"start", 0, 0>>, <<"wbyte", ab, 1>>, <<"stop", 0, 0>>>>
                 /\ call.ret = IIC_ERR_NACK
                 /\ \A i \in 1..Len(call.out) : call.out[i] = 0

\* a read of MaxLen bytes went through
C10_Witness ==
    /\ call.op = "iic_read"
    /\ call.len = MaxLen
    /\ call.ret = IIC_OK
    /\ Len(wire) = MaxLen + 3

DriverStateOps == {"aht21_trigger_measure", "aht21_read_data", "aht21_soft_reset"}

\* C11: a trigger_measure, read_data or soft_reset on a device in ERROR leaves it in
\* ERROR, but for a soft_reset that returns OK, which leaves it in IDLE.
C11_ErrorLeftOnlyByReset ==
    [][\A d \in Devices :
          (/\ dev[d].state = AHT21_STATE_ERROR
           /\ call'.h = d
           /\ call'.op \in DriverStateOps)
          => IF call'.op = "aht21_soft_reset" /\ call'.ret = AHT21_OK
             THEN dev'[d].state = AHT21_STATE_IDLE
             ELSE dev'[d].state = AHT21_STATE_ERROR]_vars

(* ======================== Sensor API actions ========================== *)

\* the effect of a sensor-layer call on instance s; r = [res, s, h, b]
SenDone(op, s, r) ==
    /\ sen' = [sen EXCEPT ![s] = r.s]
    /\ dev' = [dev EXCEPT ![s] = r.h]
    /\ bus_busy' = r.b.bus_busy
    /\ wire' = r.b.wire
    /\ call' = Call(op, s, r.res)

\* sensor_reset, sensor_trigger_measure and sensor_read_data reject a null handle
SenNullHandle(op) ==
    /\ wire' = <<>>
    /\ call' = Call(op, NULL, SENSOR_ERR_INVALID_PARAM)
    /\ UNCHANGED <<bus_busy, dev, sen, cycle_open, unread, ready_ticks>>

sensor_reset_call ==
    /\ NoCallRunning
    /\ \/ SenNullHandle("sensor_reset")
       \/ \E s \in DrvDevices, e \in WriteEnvs :
             \E r \in {sensor_reset(sen[s], dev[s], Line(bus_busy, <<>>), e)} :
                /\ SenDone("sensor_reset", s, r)
                /\ cycle_open' = [cycle_open EXCEPT ![s] = IF r.res = SENSOR_OK THEN FALSE ELSE @]
                /\ ready_ticks' = ReadyTicks(s, FALSE)
                /\ UNCHANGED unread
    /\ UNCHANGED <<regVars, tickVars, outVars, blkVars>>

sensor_trigger_measure_call ==
    /\ NoCallRunning
    /\ \/ SenNullHandle("sensor_trigger_measure")
       \/ \E s \in DrvDevices, e \in WriteEnvs :
             \E r \in {sensor_trigger_measure(sen[s], dev[s], Line(bus_busy, <<>>), e)} :
                /\ SenDone("sensor_trigger_measure", s, r)
                /\ cycle_open' = [cycle_open EXCEPT ![s] = IF r.res = SENSOR_OK THEN TRUE ELSE @]
                /\ ready_ticks' = ReadyTicks(s, FALSE)
                /\ unread' = [unread EXCEPT ![s] = IF r.res = SENSOR_OK THEN TRUE ELSE @]
    /\ UNCHANGED <<regVars, tickVars, outVars, blkVars>>

sensor_read_data_call ==
    /\ NoCallRunning
    /\ \/ SenNullHandle("sensor_read_data")
       \/ \E s \in DrvDevices, e \in ReadEnvs :
             \E r \in {sensor_read_data(sen[s], dev[s], Line(bus_busy, <<>>), e)} :
                /\ SenDone("sensor_read_data", s, r)
                /\ cycle_open' = [cycle_open EXCEPT ![s] = IF r.res = SENSOR_OK THEN FALSE ELSE @]
                /\ ready_ticks' = ReadyTicks(s, FALSE)
                /\ unread' = [unread EXCEPT ![s] = IF r.res = SENSOR_OK THEN FALSE ELSE @]
    /\ UNCHANGED <<regVars, tickVars, outVars, blkVars>>

NextSen ==
    \/ sensor_reset_call
    \/ sensor_trigger_measure_call
    \/ sensor_read_data_call

SpecSen == InitDrv /\ [][NextSen]_vars

\* the bytes the master received, in order
RBytes(w) ==
    LET r == SelectSeq(w, LAMBDA x : x.ev = "rbyte")
    IN  [i \in 1..Len(r) |-> r[i].data]

\* the backend read succeeded: a status byte and the 7 reply bytes were received and
\* the status byte has its busy bit clear
BackendReadOk(w) == Len(RBytes(w)) = 8 /\ BitAnd(RBytes(w)[1], AHT21_STATUS_BUSY) = 0

\* the readings that aht21_parse_data makes of the 7 reply bytes received
Parsed(w) == aht21_parse_data([AHT21_Zeroed EXCEPT !.raw_data = SubSeq(RBytes(w), 2, 8)])

\* C12: when the backend read of a sensor_read_data succeeds, the instance's cached
\* temperature and humidity are the values parsed from the reply just received, its
\* state is READY and the result is OK; when it fails, the instance is as it was and
\* the result is BUSY (busy bit set) or the communication error.
C12_ReadRefreshesCache ==
    [][(call'.op = "sensor_read_data" /\ call'.h \in Sensors) =>
          LET s == call'.h
          IN  IF BackendReadOk(wire')
              THEN /\ call'.ret = SENSOR_OK
                   /\ sen'[s].temperature = Parsed(wire').temperature
                   /\ sen'[s].humidity = Parsed(wire').humidity
                   /\ sen'[s].temperature = dev'[s].temperature
                   /\ sen'[s].humidity = dev'[s].humidity
                   /\ sen'[s].state = SENSOR_STATE_READY
                   /\ sen'[s].next = sen[s].next
              ELSE /\ sen'[s] = sen[s]
                   /\ call'.ret = IF Len(RBytes(wire')) = 1 /\ BitAnd(RBytes(wire')[1], AHT21_STATUS_BUSY) # 0
                                  THEN SENSOR_ERR_BUSY ELSE SENSOR_ERR_COMM]_vars

\* a successful read cached the reading of the second reply frame
C12_Witness ==
    /\ call.op = "sensor_read_data"
    /\ call.h \in Sensors
    /\ call.ret = SENSOR_OK
    /\ sen[call.h].state = SENSOR_STATE_READY
    /\ sen[call.h].humidity = Parsed(wire).humidity
    /\ sen[call.h].humidity # 0
    /\ sen[call.h].humidity # aht21_parse_data([AHT21_Zeroed EXCEPT !.raw_data = QuietEnv.frame]).humidity

(* ===================== sensor_read_blocking actions =================== *)

\* sensor_read_blocking up to its while loop: the argument check, the trigger and
\* timeout = 1000.  Until the call returns, call.ret holds the result of the trigger.
sensor_read_blocking_begin ==
    /\ NoCallRunning
    /\ \/ /\ \E temp_ok \in BOOLEAN, humi_ok \in BOOLEAN :
                call' = CallRec("sensor_read_blocking", NULL, SENSOR_ERR_INVALID_PARAM, 0,
                                <<Ptr(temp_ok), Ptr(humi_ok)>>, 0, <<>>, <<>>)
          /\ wire' = <<>>
          /\ UNCHANGED <<bus_busy, drvVars, sen, blk_pc, blk_timeout>>
       \/ /\ \E s \in DrvDevices, temp_ok \in BOOLEAN, humi_ok \in BOOLEAN :
                /\ ~(temp_ok /\ humi_ok)
                /\ call' = CallRec("sensor_read_blocking", s, SENSOR_ERR_INVALID_PARAM, 0,
                                   <<Ptr(temp_ok), Ptr(humi_ok)>>, 0, <<>>, <<>>)
          /\ wire' = <<>>
          /\ UNCHANGED <<bus_busy, drvVars, sen, blk_pc, blk_timeout>>
       \/ \E s \in DrvDevices, e \in WriteEnvs :
             \E r \in {sensor_trigger_measure(sen[s], dev[s], Line(bus_busy, <<>>), e)} :
                /\ sen' = [sen EXCEPT ![s] = r.s]
                /\ dev' = [dev EXCEPT ![s] = r.h]
                /\ bus_busy' = r.b.bus_busy
                /\ wire' = r.b.wire
                /\ call' = CallRec("sensor_read_blocking", s, r.res, 0, <<1, 1>>, 0, <<>>, <<>>)
                /\ cycle_open' = [cycle_open EXCEPT ![s] = IF r.res = SENSOR_OK THEN TRUE ELSE @]
                /\ ready_ticks' = ReadyTicks(s, FALSE)
                /\ unread' = [unread EXCEPT ![s] = IF r.res = SENSOR_OK THEN TRUE ELSE @]
                /\ blk_pc' = IF r.res = SENSOR_OK THEN "poll" ELSE "idle"
                /\ blk_timeout' = IF r.res = SENSOR_OK THEN POLL_TIMEOUT ELSE blk_timeout
    /\ polls' = 0
    /\ UNCHANGED <<regVars, tickVars, outVars>>

\* mutation: the loop test does not decrement timeout
sensor_read_blocking_poll_no_decrement ==
    /\ blk_pc = "poll"
    /\ blk_timeout' = blk_timeout
    /\ IF blk_timeout = 0
       THEN /\ blk_pc' = "read"
            /\ UNCHANGED polls
       ELSE LET state == sensor_get_state(dev[call.h])
            IN  /\ polls' = polls + 1
                /\ blk_pc' = IF state = SENSOR_STATE_READY \/ state # SENSOR_STATE_MEASURING
                             THEN "read" ELSE "poll"
    /\ UNCHANGED <<busVars, drvVars, sen, regVars, tickVars, outVars, call>>

\* one evaluation of while (timeout--) and, when it is not 0, one pass of the loop
\* body; timeout is a uint16_t, so the decrement of 0 gives 65535
sensor_read_blocking_poll ==
    /\ blk_pc = "poll"
    /\ blk_timeout' = (blk_timeout + 65535) % 65536
    /\ IF blk_timeout = 0
       THEN /\ blk_pc' = "read"
            /\ UNCHANGED polls
       ELSE LET state == sensor_get_state(dev[call.h])
            IN  /\ polls' = polls + 1
                /\ blk_pc' = IF state = SENSOR_STATE_READY \/ state # SENSOR_STATE_MEASURING
                             THEN "read" ELSE "poll"
    /\ UNCHANGED <<busVars, drvVars, sen, regVars, tickVars, outVars, call>>

\* sensor_read_blocking after its while loop: sensor_read_data, then sensor_get_both
sensor_read_blocking_read ==
    /\ blk_pc = "read"
    /\ LET s == call.h
       IN  \E e \in ReadEnvs :
              \E r \in {sensor_read_data(sen[s], dev[s], Line(bus_busy, <<>>), e)} :
                 LET g == sensor_get_both(r.s, TRUE, out_temp, TRUE, out_humi)
                 IN  /\ sen' = [sen EXCEPT ![s] = r.s]
                     /\ dev' = [dev EXCEPT ![s] = r.h]
                     /\ bus_busy' = r.b.bus_busy
                     /\ wire' = r.b.wire
                     /\ cycle_open' = [cycle_open EXCEPT ![s] = IF r.res = SENSOR_OK THEN FALSE ELSE @]
                     /\ ready_ticks' = ReadyTicks(s, FALSE)
                     /\ unread' = [unread EXCEPT ![s] = IF r.res = SENSOR_OK THEN FALSE ELSE @]
                     /\ call' = [call EXCEPT !.ret = IF r.res # SENSOR_OK THEN r.res ELSE g.res]
                     /\ out_temp' = IF r.res # SENSOR_OK THEN out_temp ELSE g.temp
                     /\ out_humi' = IF r.res # SENSOR_OK THEN out_humi ELSE g.humi
    /\ blk_pc' = "idle"
    /\ UNCHANGED <<regVars, tickVars, blk_timeout, polls>>

NextBlk ==
    \/ sensor_read_blocking_begin
    \/ sensor_read_blocking_poll
    \/ sensor_read_blocking_read

\* the processor keeps executing the while loop it is in
SpecBlk ==
    /\ InitDrv
    /\ [][NextBlk]_vars
    /\ WF_vars(sensor_read_blocking_poll)

\* C13: a sensor_read_blocking call makes at most 1000 sensor_get_state polls, its
\* while loop is always left, and the straight-line code after the loop returns.  With an instance and both output locations it first triggers; when the
\* trigger fails (BUSY in WAIT_MEASURE, the communication error on a NACK) the call
\* returns that error at once: no poll, no bus read, instance and outputs as before.
\* When the trigger succeeds the polls follow, then one sensor_read_data, and the
\* call returns: OK with both outputs holding the cached values, or the error of
\* the read with the outputs as before.
C13_BlockingReadTerminates ==
    /\ [](polls <= POLL_TIMEOUT)
    /\ [](blk_pc = "poll" => <>(blk_pc = "read"))
    /\ [][(/\ blk_pc = "idle"
           /\ call'.op = "sensor_read_blocking"
           /\ call'.h \in Sensors
           /\ call'.data = <<1, 1>>)
          => LET s == call'.h
             IN  IF dev[s].state = AHT21_STATE_WAIT_MEASURE \/ ~AllAcked(wire')
                 THEN /\ call'.ret = IF dev[s].state = AHT21_STATE_WAIT_MEASURE
                                     THEN SENSOR_ERR_BUSY ELSE SENSOR_ERR_COMM
                      /\ blk_pc' = "idle"
                      /\ polls' = 0
                      /\ RBytes(wire') = <<>>
                      /\ sen' = sen
                      /\ out_temp' = out_temp
                      /\ out_humi' = out_humi
                 ELSE /\ blk_pc' = "poll"
                      /\ polls' = 0
                      /\ sen'[s].state = SENSOR_STATE_MEASURING]_vars
    /\ [][blk_pc = "poll" => RBytes(wire') = <<>> /\ UNCHANGED <<dev, sen, outVars>>]_vars
    /\ [][blk_pc = "read" =>
             /\ blk_pc' = "idle"
             /\ polls' = polls
             /\ IF BackendReadOk(wire')
                THEN /\ call'.ret = SENSOR_OK
                     /\ out_temp' = sen'[call.h].temperature
                     /\ out_humi' = sen'[call.h].humidity
                     /\ out_temp' = Parsed(wire').temperature
                     /\ out_humi' = Parsed(wire').humidity
                ELSE /\ call'.ret \in {SENSOR_ERR_BUSY, SENSOR_ERR_COMM}
                     /\ UNCHANGED outVars]_vars

\* a call returned BUSY from its trigger, after an earlier call had polled 1000
\* times and failed in its read
C13_Witness ==
    /\ call.op = "sensor_read_blocking"
    /\ call.h \in Sensors
    /\ call.data = <<1, 1>>
    /\ call.ret = SENSOR_ERR_BUSY
    /\ blk_pc = "idle"
    /\ polls = 0
    /\ wire = <<>>
    /\ blk_timeout = 65535
    /\ dev[call.h].state = AHT21_STATE_WAIT_MEASURE

(* ============== Scheduler with every slave behaviour ================== *)

\* instances are registered and ticked, never stopped
NextTick ==
    \/ sensor_start_call
    \/ sensor_ticks_begin
    \/ sensor_ticks_body
    \/ sensor_ticks_return

SpecTick == InitReg /\ [][NextTick]_vars

\* the bytes the master transmitted, in order
WBytes(w) ==
    LET r == SelectSeq(w, LAMBDA x : x.ev = "wbyte")
    IN  [i \in 1..Len(r) |-> r[i].data]

\* one write transfer to the sensor whose first payload byte, if the address byte was
\* acknowledged, is cmd: one start, no byte received
IsCommand(w, cmd) ==
    /\ Len(SelectSeq(w, LAMBDA x : x.ev = "start")) = 1
    /\ RBytes(w) = <<>>
    /\ Len(WBytes(w)) >= 1
    /\ WBytes(w)[1] = AHT21_ADDR * 2
    /\ Len(WBytes(w)) >= 2 => WBytes(w)[2] = cmd

\* one read attempt: a status read and, after a status that is not busy, the 7-byte
\* read; every transfer is addressed for reading
IsReadAttempt(w) ==
    /\ Len(SelectSeq(w, LAMBDA x : x.ev = "start")) \in {1, 2}
    /\ Len(WBytes(w)) = Len(SelectSeq(w, LAMBDA x : x.ev = "start"))
    /\ \A i \in 1..Len(WBytes(w)) : WBytes(w)[i] = AHT21_ADDR * 2 + 1

\* a step of the sensor_ticks loop body
HandlerStep == ticking /\ target # NULL /\ invoked' = Append(invoked, target)

\* C14: the handler of a sensor_ticks pass does, on the instance it is given, the one
\* action its backend state selects -- the trigger command when IDLE, a read attempt
\* when MEASURING, nothing when READY, the soft-reset command when ERROR -- and
\* touches no other instance.  With instances only registered and ticked, a backend
\* in READY and its instance's state and cached values stay as they are.
C14_OneActionByState ==
    /\ [][HandlerStep =>
             LET st == sensor_get_state(dev[target])
             IN  /\ \A s \in Sensors \ {target} : dev'[s] = dev[s] /\ sen'[s] = sen[s]
                 /\ st = SENSOR_STATE_IDLE => IsCommand(wire', AHT21_CMD_TRIGGER)
                 /\ st = SENSOR_STATE_MEASURING => IsReadAttempt(wire')
                 /\ st = SENSOR_STATE_ERROR => IsCommand(wire', AHT21_CMD_SOFT_RESET)
                 /\ st = SENSOR_STATE_READY =>
                       wire' = <<>> /\ dev'[target] = dev[target] /\ sen'[target] = sen[target]
                 /\ st = SENSOR_STATE_ERROR =>
                       dev'[target].state \in {AHT21_STATE_ERROR, AHT21_STATE_IDLE}
                 /\ st = SENSOR_STATE_IDLE =>
                       dev'[target].state \in {AHT21_STATE_IDLE, AHT21_STATE_WAIT_MEASURE}
                 /\ st = SENSOR_STATE_MEASURING =>
                       dev'[target].state \in {AHT21_STATE_WAIT_MEASURE, AHT21_STATE_READY}]_vars
    /\ [][\A s \in Sensors :
             dev[s].state = AHT21_STATE_READY =>
                /\ dev'[s] = dev[s]
                /\ sen[s].state = SENSOR_STATE_READY
                /\ sen'[s].state = SENSOR_STATE_READY
                /\ sen'[s].temperature = sen[s].temperature
                /\ sen'[s].humidity = sen[s].humidity]_vars

\* a pass has just run the handler on a READY instance, after it handled another
\* instance whose backend is in ERROR
C14_Witness ==
    /\ ticking
    /\ Len(invoked) = 2
    /\ dev[invoked[2]].state = AHT21_STATE_READY
    /\ sen[invoked[2]].state = SENSOR_STATE_READY
    /\ sen[invoked[2]].humidity # 0
    /\ dev[invoked[1]].state = AHT21_STATE_ERROR
    /\ wire = <<>>

\* an aht21_ticks call on device d that finds it in state st
TickStep(d, st) == call'.op = "aht21_ticks" /\ call'.h = d /\ dev[d].state = st

\* C15: a successful trigger_measure zeroes the counter and nothing but aht21_ticks
\* changes it while the device stays in WAIT_MEASURE, so it counts the ticks since the
\* trigger.  A tick in WAIT_MEASURE adds 1 to it; below 16 the tick puts nothing on
\* the bus and the device stays as it is; from 16 on the tick makes one read attempt,
\* the device is READY with the parsed reading when the read succeeds and stays in
\* WAIT_MEASURE when the status is busy or a transfer fails.
C15_ReadAfterLatency ==
    [][\A d \in Devices :
          /\ (dev[d].state # AHT21_STATE_WAIT_MEASURE /\ dev'[d].state = AHT21_STATE_WAIT_MEASURE)
                => dev'[d].measure_ticks = 0
          /\ (/\ dev[d].state = AHT21_STATE_WAIT_MEASURE
              /\ dev'[d].state = AHT21_STATE_WAIT_MEASURE
              /\ call'.op # "aht21_ticks")
                => dev'[d].measure_ticks = dev[d].measure_ticks
          /\ TickStep(d, AHT21_STATE_WAIT_MEASURE) =>
                /\ dev'[d].measure_ticks = dev[d].measure_ticks + 1
                /\ IF dev'[d].measure_ticks < MEASURE_LATENCY_TICKS
                   THEN /\ wire' = <<>>
                        /\ dev'[d] = [dev[d] EXCEPT !.measure_ticks = @ + 1]
                   ELSE /\ IsReadAttempt(wire')
                        /\ IF BackendReadOk(wire')
                           THEN /\ dev'[d].state = AHT21_STATE_READY
                                /\ dev'[d].temperature = Parsed(wire').temperature
                                /\ dev'[d].humidity = Parsed(wire').humidity
                           ELSE /\ dev'[d].state = AHT21_STATE_WAIT_MEASURE
                                /\ dev'[d].temperature = dev[d].temperature
                                /\ dev'[d].humidity = dev[d].humidity]_vars

\* the read of the 16th tick failed and the read of the 17th tick succeeded
C15_Witness ==
    /\ call.op = "aht21_ticks"
    /\ call.h \in Devices
    /\ dev[call.h].state = AHT21_STATE_READY
    /\ dev[call.h].measure_ticks = MEASURE_LATENCY_TICKS + 1
    /\ BackendReadOk(wire)

(* ==================== The driver under aht21_ticks alone ============== *)

NextTicks == aht21_ticks_call

SpecTicks == InitDrv /\ [][NextTicks]_vars

AckedFrames == Frames \cup {<<28, 0, 0, 0, 0, 0, 0>>, <<28, 255, 255, 255, 255, 255, 0>>}

\* every AHT21_Handle that init and aht21_ticks can leave behind: no reading yet, or
\* the parsed reading of a reply frame
TickHandles ==
    {[h EXCEPT !.state = st, !.measure_ticks = t] :
        h \in {AHT21_Zeroed} \cup {aht21_parse_data([AHT21_Zeroed EXCEPT !.raw_data = f]) : f \in AckedFrames},
        st \in {AHT21_STATE_IDLE, AHT21_STATE_WAIT_MEASURE, AHT21_STATE_READY, AHT21_STATE_ERROR},
        t \in 0..(MaxTicks + DEFAULT_MEASURE_INTERVAL \div 5)}

\* a slave that acknowledges every byte; its status byte is busy or not
AckedEnvs == {[QuietEnv EXCEPT !.status = st, !.frame = f] : st \in {24, 152}, f \in AckedFrames}

\* aht21_ticks on an idle bus, tabulated
TickTable ==
    [h \in TickHandles, e \in AckedEnvs \cup WriteEnvs |-> aht21_ticks(h, Line(0, <<>>), e)]

\* the busy bit clears in the end: it is clear at the latest when the counter comes
\* to MaxTicks
BusyClears(h, e) ==
    (h.state = AHT21_STATE_WAIT_MEASURE /\ h.measure_ticks + 1 >= MaxTicks)
        => BitAnd(e.status, AHT21_STATUS_BUSY) = 0

\* aht21_ticks on device d with such a slave; the bus is idle between calls
aht21_ticks_acked ==
    /\ NoCallRunning
    /\ bus_busy = 0
    /\ \E d \in DrvDevices : \E e \in AckedEnvs :
          /\ BusyClears(dev[d], e)
          /\ LET st == dev[d].state
                 r  == TickTable[dev[d], e]
             IN  /\ DrvDone("aht21_ticks", d, [res |-> 0, h |-> r.h, b |-> r.b])
                 /\ cycle_open' = [cycle_open EXCEPT ![d] = (r.h.state = AHT21_STATE_WAIT_MEASURE)]
                 /\ ready_ticks' = ReadyTicks(d, TRUE)
                 /\ unread' = [unread EXCEPT ![d] = (r.h.state = AHT21_STATE_WAIT_MEASURE)]
    /\ UNCHANGED <<sen, regVars, tickVars, outVars, blkVars>>

NextAcked == aht21_ticks_acked

\* aht21_ticks is called again and again
SpecAcked == InitDrv /\ [][NextAcked]_vars /\ WF_vars(aht21_ticks_acked)


DevState == dev[1].state

\* the order of the measuring cycle, and the way out of ERROR into it
CycleOrder ==
    {<<AHT21_STATE_IDLE, AHT21_STATE_WAIT_MEASURE>>,
     <<AHT21_STATE_WAIT_MEASURE, AHT21_STATE_READY>>,
     <<AHT21_STATE_READY, AHT21_STATE_IDLE>>,
     <<AHT21_STATE_ERROR, AHT21_STATE_IDLE>>}

\* C17: when aht21_ticks is called again and again, every transfer is acknowledged and
\* the busy bit clears in the end, the device changes state only along
\* IDLE -> WAIT_MEASURE -> READY -> IDLE (after leaving ERROR, which it never enters
\* again), from every state it comes to READY, and it is IDLE, WAIT_MEASURE and READY
\* infinitely often each.
C17_CyclesForever ==
    /\ [][DevState' # DevState => <<DevState, DevState'>> \in CycleOrder]_vars
    /\ [](DevState # AHT21_STATE_ERROR => [](DevState # AHT21_STATE_ERROR))
    /\ \A st \in {AHT21_STATE_IDLE, AHT21_STATE_WAIT_MEASURE, AHT21_STATE_READY, AHT21_STATE_ERROR} :
          [](DevState = st => <>(DevState = AHT21_STATE_READY))
    /\ []<>(DevState = AHT21_STATE_IDLE)
    /\ []<>(DevState = AHT21_STATE_WAIT_MEASURE)
    /\ []<>(DevState = AHT21_STATE_READY)

\* READY reached by the read of a tick that the busy bit had put off until the counter
\* stood at MaxTicks
C17_Witness ==
    /\ call.op = "aht21_ticks"
    /\ DevState = AHT21_STATE_READY
    /\ dev[1].measure_ticks = MaxTicks
    /\ ready_ticks[1] = 0
    /\ wire # <<>>


(* ============== Ticks on a device in ERROR, both levels =============== *)

\* aht21_ticks called on a device in ERROR; the slave acknowledges the bytes of the
\* command or not
aht21_ticks_in_error ==
    /\ NoCallRunning
    /\ bus_busy = 0
    /\ \E d \in DrvDevices : \E e \in WriteEnvs :
          /\ dev[d].state = AHT21_STATE_ERROR
          /\ LET r == TickTable[dev[d], e]
             IN  /\ DrvDone("aht21_ticks", d, [res |-> 0, h |-> r.h, b |-> r.b])
                 /\ cycle_open' = [cycle_open EXCEPT ![d] = FALSE]
                 /\ ready_ticks' = ReadyTicks(d, TRUE)
                 /\ unread' = [unread EXCEPT ![d] = FALSE]
    /\ UNCHANGED <<sen, regVars, tickVars, outVars, blkVars>>

\* the call of aht21_ticks_in_error whose command the slave acknowledges
aht21_ticks_reset_acked ==
    /\ aht21_ticks_in_error
    /\ AllAcked(wire') /\ Len(WBytes(wire')) = 2

\* the instances the application registers here: that of the device it also ticks
\* directly, and one more
ErrSensors == {s \in Sensors : s \in DrvDevices \/ s - 1 \in DrvDevices}

\* sensor_start on one of these
sensor_start_driven ==
    /\ sensor_start_call
    /\ call'.h \in ErrSensors

\* the device is ticked directly and, once its instance is registered, by sensor_ticks
NextErr ==
    \/ sensor_start_driven
    \/ sensor_ticks_begin
    \/ sensor_ticks_body
    \/ sensor_ticks_return
    \/ aht21_ticks_in_error

\* as long as the application is between calls again and again, it calls aht21_ticks
\* on a device in ERROR at a moment when the bus acknowledges
SpecErr == InitReg /\ [][NextErr]_vars /\ SF_vars(aht21_ticks_reset_acked)

\* what one soft-reset attempt on device d does: the reset command is the only thing
\* sent; acknowledged, the device is IDLE and otherwise unchanged; not acknowledged,
\* the device record is as before, so that nothing counts the failures
OneResetAttempt(d) ==
    /\ IsCommand(wire', AHT21_CMD_SOFT_RESET)
    /\ Len(WBytes(wire')) \in {1, 2}
    /\ \A x \in Devices \ {d} : dev'[x] = dev[x]
    /\ IF AllAcked(wire') /\ Len(WBytes(wire')) = 2
       THEN dev'[d] = [dev[d] EXCEPT !.state = AHT21_STATE_IDLE]
       ELSE dev'[d] = dev[d]

\* C18: on a device in ERROR an aht21_ticks call, and the handler of a sensor_ticks
\* pass on its instance, makes one soft-reset attempt and nothing else.  A failed
\* attempt leaves the device record as it was (no count of failures, no other state),
\* an acknowledged one makes it IDLE; so the device stays in ERROR while the bus does
\* not acknowledge and comes to IDLE once a tick meets an acknowledging bus.
C18_ErrorRetriesReset ==
    /\ [][\A d \in DrvDevices : TickStep(d, AHT21_STATE_ERROR) => OneResetAttempt(d)]_vars
    /\ [][(HandlerStep /\ dev[target].state = AHT21_STATE_ERROR) =>
             /\ OneResetAttempt(target)
             /\ \A s \in Sensors \ {target} : sen'[s] = sen[s]
             /\ sen'[target] =
                   IF dev'[target].state = AHT21_STATE_IDLE
                   THEN [sen[target] EXCEPT !.state = SENSOR_STATE_IDLE]
                   ELSE sen[target]]_vars
    /\ []<>NoCallRunning =>
          \A d \in DrvDevices :
             [](dev[d].state = AHT21_STATE_ERROR => <>(dev[d].state = AHT21_STATE_IDLE))

\* an aht21_ticks call has just brought to IDLE a device that was in ERROR since its
\* init and that a sensor_ticks pass had tried to reset in vain
C18_Witness ==
    /\ call.op = "aht21_ticks"
    /\ call.h = 1
    /\ dev[1].state = AHT21_STATE_IDLE
    /\ AllAcked(wire) /\ Len(WBytes(wire)) = 2
    /\ Len(invoked) = 2
    /\ 1 \in {invoked[1], invoked[2]}


(* ================= The adapter's operations, called through aht21_ops ================= *)

\* the translations of the adapter: reset; trigger and read; get_temp and get_humi
aht21_adapter_reset_result(res) ==
    IF res = AHT21_OK THEN SENSOR_OK ELSE SENSOR_ERR_COMM

aht21_adapter_command_result(res) ==
    IF res = AHT21_OK THEN SENSOR_OK
    ELSE IF res = AHT21_ERR_BUSY THEN SENSOR_ERR_BUSY
    ELSE SENSOR_ERR_COMM

aht21_adapter_getter_result(res) ==
    IF res = AHT21_OK THEN SENSOR_OK ELSE SENSOR_ERR_NOT_READY

\* the record of an adapter call: ret is what the adapter returned, data holds what the
\* driver function it called returned
AdapterCall(op, h, ret, drv_res) == CallRec(op, h, ret, 0, <<drv_res>>, 0, <<>>, <<>>)

\* the effect of an adapter call on device d; a = [res, h, b] is what the adapter
\* operation returns, drv_res what the driver function returns
AdapterDone(op, d, a, drv_res) ==
    /\ dev' = [dev EXCEPT ![d] = a.h]
    /\ bus_busy' = a.b.bus_busy
    /\ wire' = a.b.wire
    /\ call' = AdapterCall(op, d, a.res, drv_res)

\* a null handle goes to the driver function, which rejects it
AdapterNullHandle(op, ret) ==
    /\ wire' = <<>>
    /\ call' = AdapterCall(op, NULL, ret, AHT21_ERR_INVALID_PARAM)
    /\ UNCHANGED <<bus_busy, dev, cycle_open, unread, ready_ticks>>

aht21_adapter_reset_call ==
    /\ NoCallRunning
    /\ \/ AdapterNullHandle("aht21_adapter_reset",
                            aht21_adapter_reset_result(AHT21_ERR_INVALID_PARAM))
       \/ \E d \in DrvDevices, e \in WriteEnvs :
             \E a \in {aht21_adapter_reset(dev[d], Line(bus_busy, <<>>), e)} :
                /\ AdapterDone("aht21_adapter_reset", d, a,
                               aht21_soft_reset(dev[d], Line(bus_busy, <<>>), e).res)
                /\ cycle_open' = [cycle_open EXCEPT ![d] = IF a.res = SENSOR_OK THEN FALSE ELSE @]
                /\ ready_ticks' = ReadyTicks(d, FALSE)
                /\ UNCHANGED unread
    /\ UNCHANGED <<sen, regVars, tickVars, outVars, blkVars>>

aht21_adapter_trigger_call ==
    /\ NoCallRunning
    /\ \/ AdapterNullHandle("aht21_adapter_trigger",
                            aht21_adapter_command_result(AHT21_ERR_INVALID_PARAM))
       \/ \E d \in DrvDevices, e \in WriteEnvs :
             \E a \in {aht21_adapter_trigger(dev[d], Line(bus_busy, <<>>), e)} :
                /\ AdapterDone("aht21_adapter_trigger", d, a,
                               aht21_trigger_measure(dev[d], Line(bus_busy, <<>>), e).res)
                /\ cycle_open' = [cycle_open EXCEPT ![d] = IF a.res = SENSOR_OK THEN TRUE ELSE @]
                /\ ready_ticks' = ReadyTicks(d, FALSE)
                /\ unread' = [unread EXCEPT ![d] = IF a.res = SENSOR_OK THEN TRUE ELSE @]
    /\ UNCHANGED <<sen, regVars, tickVars, outVars, blkVars>>

aht21_adapter_read_call ==
    /\ NoCallRunning
    /\ \/ AdapterNullHandle("aht21_adapter_read",
                            aht21_adapter_command_result(AHT21_ERR_INVALID_PARAM))
       \/ \E d \in DrvDevices, e \in ReadEnvs :
             \E a \in {aht21_adapter_read(dev[d], Line(bus_busy, <<>>), e)} :
                /\ AdapterDone("aht21_adapter_read", d, a,
                               aht21_read_data(dev[d], Line(bus_busy, <<>>), e).res)
                /\ cycle_open' = [cycle_open EXCEPT ![d] = IF a.res = SENSOR_OK THEN FALSE ELSE @]
                /\ ready_ticks' = ReadyTicks(d, FALSE)
                /\ unread' = [unread EXCEPT ![d] = IF a.res = SENSOR_OK THEN FALSE ELSE @]
    /\ UNCHANGED <<sen, regVars, tickVars, outVars, blkVars>>

\* get_temp: a null handle or a null temp goes to aht21_get_temperature, which rejects it
aht21_adapter_get_temp_call ==
    /\ NoCallRunning
    /\ \/ /\ call' = AdapterCall("aht21_adapter_get_temp", NULL,
                                 aht21_adapter_getter_result(AHT21_ERR_INVALID_PARAM),
                                 AHT21_ERR_INVALID_PARAM)
          /\ UNCHANGED out_temp
       \/ \E d \in DrvDevices :
             \/ /\ call' = AdapterCall("aht21_adapter_get_temp", d,
                                       aht21_adapter_getter_result(AHT21_ERR_INVALID_PARAM),
                                       aht21_get_temperature(dev[d], FALSE, out_temp).res)
                /\ UNCHANGED out_temp
             \/ LET a == aht21_adapter_get_temp(dev[d], out_temp)
                IN  /\ out_temp' = a.val
                    /\ call' = AdapterCall("aht21_adapter_get_temp", d, a.res,
                                           aht21_get_temperature(dev[d], TRUE, out_temp).res)
    /\ wire' = <<>>
    /\ UNCHANGED <<bus_busy, drvVars, sen, regVars, tickVars, out_humi, blkVars>>

aht21_adapter_get_humi_call ==
    /\ NoCallRunning
    /\ \/ /\ call' = AdapterCall("aht21_adapter_get_humi", NULL,
                                 aht21_adapter_getter_result(AHT21_ERR_INVALID_PARAM),
                                 AHT21_ERR_INVALID_PARAM)
          /\ UNCHANGED out_humi
       \/ \E d \in DrvDevices :
             \/ /\ call' = AdapterCall("aht21_adapter_get_humi", d,
                                       aht21_adapter_getter_result(AHT21_ERR_INVALID_PARAM),
                                       aht21_get_humidity(dev[d], FALSE, out_humi).res)
                /\ UNCHANGED out_humi
             \/ LET a == aht21_adapter_get_humi(dev[d], out_humi)
                IN  /\ out_humi' = a.val
                    /\ call' = AdapterCall("aht21_adapter_get_humi", d, a.res,
                                           aht21_get_humidity(dev[d], TRUE, out_humi).res)
    /\ wire' = <<>>
    /\ UNCHANGED <<bus_busy, drvVars, sen, regVars, tickVars, out_temp, blkVars>>

\* get_state reads handle->state; data holds that state
aht21_adapter_get_state_call ==
    /\ NoCallRunning
    /\ \E d \in DrvDevices :
          call' = AdapterCall("aht21_adapter_get_state", d,
                              aht21_adapter_get_state(dev[d]), dev[d].state)
    /\ wire' = <<>>
    /\ UNCHANGED <<bus_busy, drvVars, sen, regVars, tickVars, outVars, blkVars>>

NextAdp ==
    \/ aht21_adapter_reset_call
    \/ aht21_adapter_trigger_call
    \/ aht21_adapter_read_call
    \/ aht21_adapter_get_temp_call
    \/ aht21_adapter_get_humi_call
    \/ aht21_adapter_get_state_call

SpecAdp == InitDrv /\ [][NextAdp]_vars

AdapterResultOps ==
    {"aht21_adapter_reset", "aht21_adapter_trigger", "aht21_adapter_read",
     "aht21_adapter_get_temp", "aht21_adapter_get_humi"}

\* the generic result kind that corresponds to a driver result kind: the two
\* enumerations list the same kinds in the same order
SensorResultOf(res) ==
    CASE res = AHT21_OK                -> SENSOR_OK
      [] res = AHT21_ERR_NOT_INIT      -> SENSOR_ERR_INIT
      [] res = AHT21_ERR_BUSY          -> SENSOR_ERR_BUSY
      [] res = AHT21_ERR_TIMEOUT       -> SENSOR_ERR_TIMEOUT
      [] res = AHT21_ERR_IIC           -> SENSOR_ERR_COMM
      [] res = AHT21_ERR_INVALID_PARAM -> SENSOR_ERR_INVALID_PARAM

\* the one driver state that a generic state stands for
DriverStateOf(state) ==
    CASE state = SENSOR_STATE_IDLE      -> AHT21_STATE_IDLE
      [] state = SENSOR_STATE_MEASURING -> AHT21_STATE_WAIT_MEASURE
      [] state = SENSOR_STATE_READY     -> AHT21_STATE_READY
      [] state = SENSOR_STATE_ERROR     -> AHT21_STATE_ERROR

\* C19: every adapter operation returns the generic result kind that corresponds to
\* the kind the driver function returned (OK, BUSY, communication failure, invalid
\* parameter, not initialised), and get_state returns a generic state that stands for
\* the driver state alone.
C19_TranslationOneToOne ==
    /\ call.op \in AdapterResultOps => call.ret = SensorResultOf(call.data[1])
    /\ call.op = "aht21_adapter_get_state" => call.data[1] = DriverStateOf(call.ret)


\* C20: a device becomes READY only from WAIT_MEASURE and only while the measurement
\* that a successful trigger_measure started is still outstanding; an aht21_read_data
\* call that finds the device in IDLE or ERROR leaves it out of READY and leaves the
\* cached reading as it was.
C20_ReadyOnlyFromWaitMeasure ==
    [][\A d \in Devices :
          /\ (dev[d].state # AHT21_STATE_READY /\ dev'[d].state = AHT21_STATE_READY)
                => (dev[d].state = AHT21_STATE_WAIT_MEASURE /\ cycle_open[d])
          /\ (/\ call'.op = "aht21_read_data"
              /\ call'.h = d
              /\ dev[d].state \in {AHT21_STATE_IDLE, AHT21_STATE_ERROR})
                => /\ dev'[d].state # AHT21_STATE_READY
                   /\ dev'[d].temperature = dev[d].temperature
                   /\ dev'[d].humidity = dev[d].humidity]_vars


(* ========== sensor_ticks preempted by sensor_stop from another context ========= *)

\* the pass stands on target with target's handler run and target = target->next not
\* yet executed
AfterHandler ==
    /\ ticking
    /\ target # NULL
    /\ invoked # <<>>
    /\ invoked[Len(invoked)] = target

\* sensor_ticks, the loop body alone: sensor_handler(target), the slave answering
sensor_ticks_handler ==
    /\ ticking
    /\ target # NULL
    /\ ~AfterHandler
    /\ LET st == sensor_get_state(dev[target])
       IN  \E e \in {QuietEnv} :
              \E r \in {sensor_handler(sen[target], dev[target], Line(bus_busy, <<>>), e)} :
                  /\ sen' = [sen EXCEPT ![target] = r.s]
                  /\ dev' = [dev EXCEPT ![target] = r.h]
                  /\ bus_busy' = r.b.bus_busy
                  /\ wire' = r.b.wire
                  /\ cycle_open' =
                        [cycle_open EXCEPT
                            ![target] = CASE st = SENSOR_STATE_IDLE ->
                                                IF r.res = SENSOR_OK THEN TRUE ELSE @
                                          [] st \in {SENSOR_STATE_MEASURING, SENSOR_STATE_ERROR} ->
                                                IF r.res = SENSOR_OK THEN FALSE ELSE @
                                          [] OTHER -> @]
                  /\ ready_ticks' = ReadyTicks(target, FALSE)
                  /\ unread' =
                        [unread EXCEPT
                            ![target] = CASE st = SENSOR_STATE_IDLE ->
                                                IF r.res = SENSOR_OK THEN TRUE ELSE @
                                          [] st = SENSOR_STATE_MEASURING ->
                                                IF r.res = SENSOR_OK THEN FALSE ELSE @
                                          [] OTHER -> @]
    /\ invoked' = Append(invoked, target)
    /\ UNCHANGED <<regVars, ticking, target, outVars, call, blkVars>>

\* sensor_ticks, the step of the for loop: target = target->next
sensor_ticks_advance ==
    /\ AfterHandler
    /\ target' = sen[target].next
    /\ UNCHANGED <<busVars, drvVars, sen, regVars, ticking, invoked, outVars, call, blkVars>>

\* sensor_stop run to its end by another context (an interrupt) between a handler
\* call of a sensor_ticks pass and the step of its loop.  The record keeps the position
\* of the pass in addr and the number of handler calls it had made in len.
sensor_stop_preempting ==
    /\ AfterHandler
    /\ \E handle \in Sensors :
          LET r == sensor_stop(head_sensor, sen, handle)
          IN  /\ head_sensor' = r.head
              /\ sen' = r.sen
              /\ regOrder' = SelectSeq(regOrder, LAMBDA x : x # handle)
              /\ call' = CallRec("sensor_stop", handle, 0, target, Registry, Len(invoked),
                                 <<>>, <<>>)
    /\ UNCHANGED <<busVars, drvVars, ticking, target, invoked, outVars, blkVars>>

NextPre ==
    \/ sensor_start_call
    \/ sensor_ticks_begin
    \/ sensor_ticks_handler
    \/ sensor_ticks_advance
    \/ sensor_ticks_return
    \/ sensor_stop_preempting

\* every device was initialised with an answering slave
SpecPre == InitBus /\ [][NextPre]_vars

\* the last call was sensor_stop(x), x registered, made while a pass stood on x after
\* x's handler
StoppedUnderPass ==
    /\ call.op = "sensor_stop"
    /\ call.h # NULL
    /\ call.addr = call.h
    /\ InSeq(call.h, call.data)
    /\ call.len >= 1
    /\ Len(invoked) >= call.len
    /\ invoked[call.len] = call.h

\* the instances after x on the registry q
Followers(x, q) ==
    {q[j] : j \in {k \in 1..Len(q) : \E i \in 1..(k - 1) : q[i] = x}}

\* C21: a sensor_stop(x) that preempts a sensor_ticks pass standing on x after x's
\* handler ends the pass there: the pass makes no further handler call, and the
\* instances that follow x on the registry stay registered and are not handled in it.
C21_StopUnderPassEndsIt ==
    StoppedUnderPass =>
       /\ Len(invoked) = call.len
       /\ target \in {call.h, NULL}
       /\ target = call.h => sen[target].next = NULL
       /\ \A y \in Followers(call.h, call.data) : InSeq(y, Registry) /\ ~InSeq(y, invoked)

\* such a pass has returned, and two registered instances were left out of it
C21_Witness ==
    /\ StoppedUnderPass
    /\ ~ticking
    /\ Len(call.data) = 3
    /\ call.data[1] = call.h
    /\ invoked = <<call.h>>
    /\ Registry = <<call.data[2], call.data[3]>>


(* ================== The generic layer, every operation ================= *)

\* sensor_init on a null handle, ops or driver_handle returns at once; otherwise it
\* clears the whole instance, the registry link included, and sets state = IDLE;
\* aht21_adapter_init leaves the device as it is
sensor_init_call ==
    /\ NoCallRunning
    /\ \/ /\ \E handle \in Sensors \cup {NULL} :
                call' = CallRec("sensor_init", handle, 0, 0, Registry, 0, <<>>, <<>>)
          /\ UNCHANGED sen
       \/ \E handle \in Sensors :
             /\ sen' = [sen EXCEPT ![handle] = sensor_init(sen[handle])]
             /\ call' = CallRec("sensor_init", handle, 1, 0, Registry, 0, <<>>, <<>>)
    /\ wire' = <<>>
    /\ invoked' = <<>>
    /\ UNCHANGED <<bus_busy, drvVars, regVars, ticking, target, outVars, blkVars>>

\* sensor_read_blocking from call to return.  The polls of its while loop only read
\* the backend state, which nothing changes while the loop runs, so they leave no
\* trace; the local timeout is not kept.  TrigEnvs: the slaves of a failing trigger,
\* CallEnvs: the slaves of a call whose trigger succeeds
SensorReadBlocking(TrigEnvs, CallEnvs) ==
    /\ NoCallRunning
    /\ \/ /\ \E handle \in DrvDevices \cup {NULL}, temp_ok \in BOOLEAN, humi_ok \in BOOLEAN :
                /\ handle = NULL \/ ~(temp_ok /\ humi_ok)
                /\ call' = CallRec("sensor_read_blocking", handle, SENSOR_ERR_INVALID_PARAM, 0,
                                   <<Ptr(temp_ok), Ptr(humi_ok)>>, 0, <<>>, <<>>)
          /\ wire' = <<>>
          /\ UNCHANGED <<bus_busy, drvVars, sen, outVars>>
       \/ \E s \in DrvDevices, e \in TrigEnvs :
             \E t \in {sensor_trigger_measure(sen[s], dev[s], Line(bus_busy, <<>>), e)} :
                /\ t.res # SENSOR_OK
                /\ sen' = [sen EXCEPT ![s] = t.s]
                /\ dev' = [dev EXCEPT ![s] = t.h]
                /\ bus_busy' = t.b.bus_busy
                /\ wire' = t.b.wire
                /\ call' = CallRec("sensor_read_blocking", s, t.res, 0, <<1, 1>>, 0, <<>>, <<>>)
                /\ UNCHANGED <<outVars, cycle_open, ready_ticks, unread>>
       \/ \E s \in DrvDevices, e2 \in CallEnvs :
             \E t \in {sensor_trigger_measure(sen[s], dev[s], Line(bus_busy, <<>>), e2)} :
             \E r \in {sensor_read_data(t.s, t.h, t.b, e2)} :
             \E g \in {sensor_get_both(r.s, TRUE, out_temp, TRUE, out_humi)} :
                /\ t.res = SENSOR_OK
                /\ sen' = [sen EXCEPT ![s] = r.s]
                /\ dev' = [dev EXCEPT ![s] = r.h]
                /\ bus_busy' = r.b.bus_busy
                /\ wire' = r.b.wire
                /\ out_temp' = IF r.res = SENSOR_OK THEN g.temp ELSE out_temp
                /\ out_humi' = IF r.res = SENSOR_OK THEN g.humi ELSE out_humi
                /\ call' = CallRec("sensor_read_blocking", s,
                                   IF r.res = SENSOR_OK THEN g.res ELSE r.res,
                                   0, <<1, 1>>, 0, <<>>, <<>>)
                /\ cycle_open' = [cycle_open EXCEPT ![s] = (r.res # SENSOR_OK)]
                /\ ready_ticks' = [ready_ticks EXCEPT ![s] = 0]
                /\ unread' = [unread EXCEPT ![s] = (r.res # SENSOR_OK)]
    /\ UNCHANGED <<regVars, tickVars, blkVars>>

sensor_read_blocking_call == SensorReadBlocking(WriteEnvs, ReadEnvs)

\* sensor_start with an instance that has a driver behind it
sensor_start_backed == sensor_start_call /\ call'.h \in DrvDevices

NextGen ==
    \/ sensor_init_call
    \/ sensor_start_backed
    \/ sensor_reset_call
    \/ sensor_trigger_measure_call
    \/ sensor_read_blocking_call
    \/ sensor_ticks_begin
    \/ sensor_ticks_body_onoff
    \/ sensor_ticks_return

SpecGen == InitDrv /\ [][NextGen]_vars

MaxReg == NumSensors + 1

sensor_start_bounded == sensor_start_call /\ Len(regOrder') <= MaxReg

\* the slave of the passes below does not answer
DeadEnvs(st) == {DeadEnv}

sensor_ticks_body_dead == TicksBody(DeadEnvs)

\* the registry operations next to operations that are not meant to touch the
\* registry: sensor_init on any instance, registered or not, and the passes of
\* sensor_ticks
NextIni ==
    \/ sensor_init_call
    \/ sensor_start_bounded
    \/ sensor_stop_call
    \/ sensor_ticks_begin
    \/ sensor_ticks_body_dead
    \/ sensor_ticks_return

SpecIni == InitBus /\ [][NextIni]_vars

\* C23: a step of any operation other than sensor_start and sensor_stop leaves the
\* sequence of registered instances, as sensor_ticks walks it from head_sensor,
\* unchanged.
C23_OnlyStartStopChangeRegistry ==
    [][call'.op \notin {"sensor_start", "sensor_stop"} => Registry' = Registry]_vars

(* ===================== Errors of the driver operations ================ *)

\* C24: no step of a driver operation other than aht21_init takes a device into
\* ERROR, and an aht21_trigger_measure, aht21_read_data or aht21_soft_reset in which
\* the slave did not acknowledge a byte returns the communication error with the
\* state and measure_ticks of the device as they were before the call.
C24_ErrorOnlyFromInit ==
    [][\A d \in DrvDevices :
          /\ (call'.op # "aht21_init" /\ dev'[d].state = AHT21_STATE_ERROR) =>
                dev[d].state = AHT21_STATE_ERROR
          /\ (/\ call'.op \in {"aht21_trigger_measure", "aht21_read_data", "aht21_soft_reset"}
              /\ call'.h = d
              /\ ~AllAcked(wire')) =>
                /\ call'.ret = AHT21_ERR_IIC
                /\ dev'[d].state = dev[d].state
                /\ dev'[d].measure_ticks = dev[d].measure_ticks]_vars

\* an aht21_read_data on a device that has waited some ticks in WAIT_MEASURE has
\* just failed on the bus
C24_Witness ==
    /\ call.op = "aht21_read_data"
    /\ call.h = 1
    /\ call.ret = AHT21_ERR_IIC
    /\ ~AllAcked(wire)
    /\ dev[1].state = AHT21_STATE_WAIT_MEASURE
    /\ dev[1].measure_ticks > 0

(* ========================= aht21_read_blocking ======================== *)

\* a slave that has not finished its measurement
BusyEnv == [QuietEnv EXCEPT !.status = 152]

\* a slave that acknowledges a write and not the status read
ReadNackEnv == [QuietEnv EXCEPT !.sack = 1]

\* the slave of the blocking-read specification: there and done, there and busy,
\* gone after the trigger, not there
StuckEnvs == {QuietEnv, BusyEnv, ReadNackEnv, DeadEnv}

\* aht21_read_blocking from call to return; the delay of 80 ms between its two steps
\* changes nothing in the handle.  temp_ok, humi_ok: the out pointers are not null
aht21_read_blocking_call ==
    /\ NoCallRunning
    /\ \/ /\ DrvNullHandle("aht21_read_blocking")
          /\ UNCHANGED outVars
       \/ /\ \E d \in DrvDevices, temp_ok \in BOOLEAN, humi_ok \in BOOLEAN :
                /\ ~(temp_ok /\ humi_ok)
                /\ call' = CallRec("aht21_read_blocking", d, AHT21_ERR_INVALID_PARAM, 0,
                                   <<Ptr(temp_ok), Ptr(humi_ok)>>, 0, <<>>, <<>>)
          /\ wire' = <<>>
          /\ UNCHANGED <<bus_busy, drvVars, outVars>>
       \/ \E d \in DrvDevices, e \in StuckEnvs :
             \E r \in {aht21_read_blocking(dev[d], Line(bus_busy, <<>>), e, out_temp, out_humi)} :
             \E trig \in {aht21_trigger_measure(dev[d], Line(bus_busy, <<>>), e).res = AHT21_OK} :
                /\ dev' = [dev EXCEPT ![d] = r.h]
                /\ bus_busy' = r.b.bus_busy
                /\ wire' = r.b.wire
                /\ call' = CallRec("aht21_read_blocking", d, r.res, 0, <<1, 1>>, 0, <<>>, <<>>)
                /\ out_temp' = r.temp
                /\ out_humi' = r.humi
                /\ cycle_open' = [cycle_open EXCEPT ![d] = IF trig THEN r.res # AHT21_OK ELSE @]
                /\ ready_ticks' = IF trig THEN [ready_ticks EXCEPT ![d] = 0]
                                  ELSE ReadyTicks(d, FALSE)
                /\ unread' = [unread EXCEPT ![d] = IF trig THEN r.res # AHT21_OK ELSE @]
    /\ UNCHANGED <<sen, regVars, tickVars, blkVars>>

\* aht21_read_data on a device, the slave one of StuckEnvs
aht21_read_data_retry ==
    /\ NoCallRunning
    /\ \E d \in DrvDevices, e \in StuckEnvs :
          \E r \in {aht21_read_data(dev[d], Line(bus_busy, <<>>), e)} :
             /\ DrvDone("aht21_read_data", d, r)
             /\ cycle_open' = [cycle_open EXCEPT ![d] = IF r.res = AHT21_OK THEN FALSE ELSE @]
             /\ ready_ticks' = ReadyTicks(d, FALSE)
             /\ unread' = [unread EXCEPT ![d] = IF r.res = AHT21_OK THEN FALSE ELSE @]
    /\ UNCHANGED <<sen, regVars, tickVars, outVars, blkVars>>

\* aht21_ticks on a device, the slave one of StuckEnvs; the tick counter is capped as
\* in aht21_ticks_call
aht21_ticks_retry ==
    /\ NoCallRunning
    /\ \E d \in DrvDevices, e \in StuckEnvs :
          \E r \in {aht21_ticks(dev[d], Line(bus_busy, <<>>), e)} :
             /\ dev[d].state = AHT21_STATE_WAIT_MEASURE => dev[d].measure_ticks < MaxTicks
             /\ DrvDone("aht21_ticks", d, [res |-> 0, h |-> r.h, b |-> r.b])
             /\ cycle_open' =
                   [cycle_open EXCEPT
                       ![d] = CASE dev[d].state = AHT21_STATE_IDLE ->
                                      (r.h.state = AHT21_STATE_WAIT_MEASURE)
                                [] dev[d].state = AHT21_STATE_WAIT_MEASURE ->
                                      IF r.h.state = AHT21_STATE_READY THEN FALSE ELSE @
                                [] dev[d].state = AHT21_STATE_ERROR -> FALSE
                                [] OTHER -> @]
             /\ ready_ticks' = ReadyTicks(d, TRUE)
             /\ unread' =
                   [unread EXCEPT
                       ![d] = CASE dev[d].state = AHT21_STATE_IDLE ->
                                      (r.h.state = AHT21_STATE_WAIT_MEASURE)
                                [] dev[d].state = AHT21_STATE_WAIT_MEASURE ->
                                      IF r.h.state = AHT21_STATE_READY THEN FALSE ELSE @
                                [] OTHER -> @]
    /\ UNCHANGED <<sen, regVars, tickVars, outVars, blkVars>>

sensor_read_blocking_retry == SensorReadBlocking(StuckEnvs, StuckEnvs)

\* the two blocking reads next to what can end a measurement cycle
NextStuck ==
    \/ aht21_read_blocking_call
    \/ sensor_read_blocking_retry
    \/ aht21_read_data_retry
    \/ aht21_soft_reset_call
    \/ aht21_ticks_retry

SpecStuck == InitDrv /\ [][NextStuck]_vars

\* the call that has just returned is a blocking read of device d with both output
\* locations
BlockingReadOf(c, d) ==
    /\ c.op \in {"aht21_read_blocking", "sensor_read_blocking"}
    /\ c.h = d
    /\ c.data = <<1, 1>>

\* the address and the three bytes of the trigger command were written and acknowledged
TriggerAcked(w) ==
    /\ Len(WBytes(w)) >= 4
    /\ SubSeq(WBytes(w), 2, 4) = <<AHT21_CMD_TRIGGER, 51, 0>>
    /\ \A i \in 1..Len(w) :
          (w[i].ev = "wbyte" /\ Cardinality({j \in 1..i : w[j].ev = "wbyte"}) <= 4) =>
             w[i].sda = 0

BusyOf(op) == IF op = "aht21_read_blocking" THEN AHT21_ERR_BUSY ELSE SENSOR_ERR_BUSY

====
